---- MODULE Spec2Model ----
(***************************************************************************)
(* Har02sh/RagChatbot: the hybrid retrieval core.                          *)
(*                                                                         *)
(*   QdrantRAGUploader  (src/app/services/index.py)       the Index Writer *)
(*   QdrantRetriever    (src/Server/app/services/qdrant_retriever.py)      *)
(*   RAGChatbot         (src/app/services/generation.py)                   *)
(*                                                                         *)
(* The vector store (qdrant_client) and the three embedding models         *)
(* (fastembed) are libraries the code calls.  They are modelled by what    *)
(* the calls do: a text is a sequence of tokens, the dense embedding is a  *)
(* bag-of-tokens vector compared by cosine, the sparse embedding keeps the *)
(* non-stopword tokens with their counts, the late-interaction embedding   *)
(* is one vector per token compared by max-sim.  Every call into a         *)
(* library may fail: a failing call is a disjunct of the action.           *)
(***************************************************************************)
EXTENDS Integers, Sequences, FiniteSets, TLC

(* ------------------------------ bounds -------------------------------- *)

\* Number of chunks of the largest chunk file (more than two batches and
\* more than the larger prefetch limit, so that both truncate).
NChunks == 22
\* Largest limit a caller passes to retrieve().
MaxLimit == 3
\* Indexing runs over the life of the store.
MaxRuns == 2
\* Tokens are 0 .. Vocab-1.
Vocab == 4
\* Largest max_tokens a caller passes to summarize_full_document().
MaxBudget == 12
\* Largest prefetch limit the candidate pools are compared for.
MaxPrefetch == 23
\* Points a collection holds beyond one page of the scroll, at most.
MaxExtra == 2

\* Uploads over the life of the web application.
MaxUploads == 2
\* Messages sent to the chat, one after the other.
MaxRequests == 2

(* ------------------------- program constants -------------------------- *)

BatchSize == 10
RetrieverPrefetchLimit == 20
ChatPrefetchLimit == 10
ChatLimit == 5
ScrollLimit == 1000
DefaultMaxTokens == 120000
DenseSize == 384
LateSize == 128
\* The sizes src/embedding.py declares for the two spaces.
ScriptDenseSize == 384
ScriptLateSize == 384
\* The output widths of the dense and of the late-interaction model.
DenseWidth == 384
LateWidth == 128
\* max_tries of the backoff decorator of _call_ollama.
MaxTries == 3
\* The decorator gives up on an HTTP error with a status below this.
GiveupBelow == 500

Min(a, b) == IF a <= b THEN a ELSE b

(* ------------------------------ texts --------------------------------- *)

Tokens == 0 .. (Vocab - 1)
\* Token 0 stands for the words the BM25 model drops (stopwords).
StopWords == {0}
\* The marker token the late-interaction model puts in front of every text.
CLS == -1

Count(text, t) == Cardinality({i \in DOMAIN text : text[i] = t})

(* ------------------------------ Embedder ------------------------------ *)

\* TextEmbedding("sentence-transformers/all-MiniLM-L6-v2"): one fixed-width
\* vector per text, never the zero vector (component CLS is the bias).
DenseEmbed(text) ==
    [t \in {CLS} \cup Tokens |-> IF t = CLS THEN 1 ELSE Count(text, t)]

\* SparseTextEmbedding("Qdrant/bm25"): term -> weight over the text's
\* non-stopword terms; empty when the text has none.
SparseEmbed(text) ==
    [t \in {u \in Tokens \ StopWords : Count(text, u) > 0} |-> Count(text, t)]

\* LateInteractionTextEmbedding("colbert-ir/colbertv2.0"): one vector per
\* token, the marker first, so never empty.
LateEmbed(text) == <<CLS>> \o text

\* query_embed of the three models.
DenseQueryEmbed(text) == DenseEmbed(text)
SparseQueryEmbed(text) ==
    [t \in {u \in Tokens \ StopWords : Count(text, u) > 0} |-> 1]
LateQueryEmbed(text) == <<CLS>> \o text

(* ------------------------------ scores -------------------------------- *)

RECURSIVE DotFrom(_, _, _)
DotFrom(a, b, t) ==
    IF t > Vocab - 1 THEN 0 ELSE a[t] * b[t] + DotFrom(a, b, t + 1)

Dot(a, b) == DotFrom(a, b, CLS)

\* Distance.COSINE on the dense space, as an integer: 1000 * cos^2 (all
\* components are non-negative, so cos^2 orders as cos does).
DenseScore(q, v) == (1000 * Dot(q, v) * Dot(q, v)) \div (Dot(q, q) * Dot(v, v))

RECURSIVE SparseSum(_, _, _)
SparseSum(q, v, ts) ==
    IF ts = {} THEN 0
    ELSE LET t == CHOOSE u \in ts : TRUE
         IN q[t] * v[t] + SparseSum(q, v, ts \ {t})

\* Dot product over the shared terms of two sparse vectors.
SparseScore(q, v) == SparseSum(q, v, DOMAIN q \cap DOMAIN v)

RECURSIVE MaxSimFrom(_, _, _)
MaxSimFrom(q, v, i) ==
    IF i > Len(q) THEN 0
    ELSE (IF \E j \in DOMAIN v : v[j] = q[i] THEN 1 ELSE 0)
         + MaxSimFrom(q, v, i + 1)

\* MultiVectorComparator.MAX_SIM: for every query token the best match
\* among the point's tokens (1 for the same token, 0 otherwise), summed.
LateScore(q, v) == MaxSimFrom(q, v, 1)

(* --------------------------- the vector store ------------------------- *)

Range(f) == {f[i] : i \in DOMAIN f}

\* vectors_config / sparse_vectors_config of create_collection.
Schema ==
    [dense  |-> [size |-> DenseSize, distance |-> "Cosine"],
     late   |-> [size |-> LateSize, distance |-> "Cosine",
                 comparator |-> "MaxSim"],
     sparse |-> [modifier |-> "Idf"]]

NoCollection == [exists |-> FALSE, schema |-> <<>>, points |-> <<>>]

\* client.delete_collection: the collection and its points are gone.
DeleteCollection(c) == NoCollection

\* CreateCollection, declaring the late-interaction space with the width of
\* the dense one (as the older script src/embedding.py does).
CreateCollectionWrongWidth(schema) ==
    [exists |-> TRUE, schema |-> [schema EXCEPT !.late.size = DenseSize],
     points |-> <<>>]

\* client.create_collection: a new collection, no points.
CreateCollection(schema) ==
    [exists |-> TRUE, schema |-> schema, points |-> <<>>]

\* Upsert, storing the batch in place of the points the collection holds.
UpsertReplacing(c, batch) == [c EXCEPT !.points = batch]

\* client.upsert: a point whose id is stored already is replaced, the
\* others are added in the order given.
Upsert(c, batch) ==
    LET ids == {batch[i].id : i \in DOMAIN batch}
    IN [c EXCEPT !.points = SelectSeq(@, LAMBDA p : p.id \notin ids) \o batch]

\* Before, ranking the lowest score first.
BeforeAscending(sc, i, j) == sc[i] < sc[j] \/ (sc[i] = sc[j] /\ i < j)

\* i comes before j in a ranking by sc: the higher score first, and among
\* equal scores the point stored first.
Before(sc, i, j) == sc[i] > sc[j] \/ (sc[i] = sc[j] /\ i < j)

\* ByRank, taking the limit for an offset as well: the k after the k best.
ByRankOffset(cands, rank, k) ==
    [r \in 1 .. Min(k, Cardinality({i \in cands : rank[i] >= k})) |->
        CHOOSE i \in cands : rank[i] = k + r - 1]

\* The k best of cands by their ranks (0 for the best), best first.
ByRank(cands, rank, k) ==
    [r \in 1 .. Min(k, Cardinality(cands)) |->
        CHOOSE i \in cands : rank[i] = r - 1]

\* The rank of every candidate in the ranking by the scores sc.
Ranks(cands, sc) ==
    [i \in cands |-> Cardinality({j \in cands : Before(sc, j, i)})]

\* The k best of cands by sc, best first.  (The scores and the ranks are
\* bound as values, so that each is computed once.)
TopK(cands, sc, k) ==
    CHOOSE top \in {ByRank(cands, rank, k) :
                      rank \in {Ranks(cands, f) : f \in {sc}}} : TRUE

\* models.Prefetch(query=dense, using="all-MiniLM-L6-v2", limit): the
\* positions of the nearest points in the dense space.
DensePrefetch(points, q, limit) ==
    Range(TopK(DOMAIN points,
               [i \in DOMAIN points |-> DenseScore(q, points[i].vector.dense)],
               limit))

\* models.Prefetch(query=sparse, using="bm25", limit): only points that
\* share a term with the query are candidates.
SparsePrefetch(points, q, limit) ==
    LET sc == [i \in DOMAIN points |-> SparseScore(q, points[i].vector.sparse)]
    IN Range(TopK({i \in DOMAIN points : sc[i] > 0}, sc, limit))

\* The candidates the re-rank sees: the union of the two prefetches.
PrefetchUnion(points, dense, sparse, prefetch_limit) ==
    DensePrefetch(points, dense, prefetch_limit)
        \cup SparsePrefetch(points, sparse, prefetch_limit)

\* QueryPoints, re-ranking the whole collection instead of the prefetched
\* candidates.
QueryPointsNoPrefetch(points, dense, sparse, late, prefetch_limit, limit) ==
    LET sc == [i \in DOMAIN points |-> LateScore(late, points[i].vector.late)]
        top == TopK(DOMAIN points, sc, limit)
    IN [r \in DOMAIN top |->
          [id |-> points[top[r]].id, score |-> sc[top[r]],
           payload |-> points[top[r]].payload]]

\* client.query_points(query=late, using="colbertv2.0", prefetch=[dense,
\* sparse], limit, with_payload=True): the candidates re-scored by the
\* late-interaction comparator, the best `limit` of them, best first.
QueryPoints(points, dense, sparse, late, prefetch_limit, limit) ==
    LET u == PrefetchUnion(points, dense, sparse, prefetch_limit)
        sc == [i \in u |-> LateScore(late, points[i].vector.late)]
        top == TopK(u, sc, limit)
    IN [r \in DOMAIN top |->
          [id |-> points[top[r]].id, score |-> sc[top[r]],
           payload |-> points[top[r]].payload]]

\* QueryOutcome, taking a collection without points for a missing one.
QueryOutcomeEmptyIsMissing(c, vec, args) ==
    IF ~c.exists \/ c.points = <<>> THEN [err |-> "NotFound", hits |-> <<>>]
    ELSE [err |-> "none",
          hits |-> QueryPoints(c.points, vec.dense, vec.sparse, vec.late,
                               args.prefetch_limit, args.limit)]

\* What client.query_points gives when the store answers: an error for a
\* collection that does not exist, the hits otherwise (none is no error).
QueryOutcome(c, vec, args) ==
    IF ~c.exists THEN [err |-> "NotFound", hits |-> <<>>]
    ELSE [err |-> "none",
          hits |-> QueryPoints(c.points, vec.dense, vec.sparse, vec.late,
                               args.prefetch_limit, args.limit)]

\* client.scroll(limit, with_payload=True)[0]: the first page, by id.
Scroll(points, limit) == SubSeq(points, 1, Min(limit, Len(points)))

(* ----------------------------- chunk files ---------------------------- *)

\* The text of chunk i of the large file: short texts over the tokens
\* 1..3, a first chunk with all three, and a last long chunk that mentions
\* token 0 once.
ChunkText(i) ==
    IF i = NChunks THEN <<0, 3, 3, 3, 3, 3>>
    ELSE IF i = 1 THEN <<1, 2, 3>>
    ELSE IF i % 2 = 0 THEN <<1 + (i % 3)>>
    ELSE <<1 + (i % 3), 1 + ((i + 1) % 3)>>

\* The chunk files an indexing run is given.  "text" is the key the older
\* script (src/embedding.py) reads; index.py reads "content".
ChunkFile(name) ==
    CASE name = "missing" -> [exists |-> FALSE, chunks |-> <<>>]
      [] name = "nokey"   -> [exists |-> TRUE,
                              chunks |-> <<[content |-> <<1>>], [text |-> <<2>>]>>]
      [] name = "empty"   -> [exists |-> TRUE, chunks |-> <<>>]
      [] name = "small"   -> [exists |-> TRUE,
                              chunks |-> <<[content |-> <<0>>],
                                           [content |-> <<1, 2>>]>>]
      [] name = "large"   -> [exists |-> TRUE,
                              chunks |-> [i \in 1 .. NChunks |->
                                            [content |-> ChunkText(i)]]]

FileNames == {"missing", "nokey", "empty", "small", "large"}

(* ------------------------------- state -------------------------------- *)

VARIABLES
    coll,     \* the collection in the vector store
    nextId,   \* the ids uuid.uuid4() has handed out so far are 1 .. nextId-1
    runs,     \* indexing runs started
    file,     \* QdrantRAGUploader.file_path: the name of the chunk file
    up,       \* QdrantRAGUploader: chunks, texts, dense_vecs, sparse_vecs, colbert_vecs
    ipc,      \* where run() is
    ioff,     \* insert_into_qdrant: the loop variable i
    iret,     \* what run() returned: "none" while it has not
    ifail,    \* the step of run() that raised, "none" if none did
    ilog,     \* the upsert calls of this run: <<first id, number of points, ok>>
    inflight, \* the batches given to client.upsert that has not returned yet
    made,     \* the ids uuid.uuid4() has returned so far, in the order of the calls
    bot,      \* the retrieving object: "none", "QdrantRetriever" or "RAGChatbot"
    rpc,      \* where the object's constructor or method is
    rloaded,  \* whether the object's three embedding models are loaded
    rargs,    \* the arguments of the call: query, limit, prefetch_limit, max_tokens
    rvec,     \* the query vectors computed so far
    rcalls,   \* library calls made by the call so far
    rhits,    \* results.points of query_points / all_chunks of scroll
    rout,     \* what the call returned, or is about to
    rerr,     \* the exception that ended the constructor or the call
    script,   \* src/embedding.py, the indexing script: its position and its data
    clf,      \* IntentClassifier.classify (src/intent_classify.py): the call under way
    current_collection_name, \* chat_routes.py: the global; 0 stands for None
    progress_store,          \* chat_routes.py: the global dict, task -> progress
    uploads,      \* per upload: its request, its thread, its PDF row, its indexer
    processor,    \* app/services/__init__.py: the one PDFRAGProcessor
    rag_chunks,   \* which PDFs' chunks ./my_rag_chunks/rag_chunks.json holds
    collections,  \* the store of the web application: name -> collection
    chat,         \* send_message: the request under way, or the last one
    msgs          \* the Message rows of the chat, in the order of their commits

ivars == <<file, up, ipc, ioff, iret, ifail, ilog, runs, nextId, made, inflight>>
rvars == <<bot, rpc, rloaded, rargs, rvec, rcalls, rhits, rout, rerr>>
\* The state of the programs around the index writer and the retriever.
\* The state of upload_file and background_process.
uvars ==
    <<current_collection_name, progress_store, uploads, processor, rag_chunks,
      collections>>
\* The state of send_message.
cvars == <<chat, msgs>>
wvars == <<script, clf, uvars, cvars>>
\* All of it but the script's, but the classifier's, but the uploads',
\* but send_message's.
NotScript == <<clf, uvars, cvars>>
NotClassifier == <<script, uvars, cvars>>
NotUpload == <<script, clf, cvars>>
NotChat == <<script, clf, uvars>>
vars == <<coll, ivars, rvars, wvars>>

\* src/embedding.py before it is run.
NoScript ==
    [pc |-> "none", chunks |-> <<>>, texts |-> <<>>, dense_vecs |-> <<>>,
     sparse_vecs |-> <<>>, colbert_vecs |-> <<>>]

\* The programs around the index writer and the retriever, none started.
\* No call of classify() under way.
NoClassify ==
    [pc |-> "idle", input |-> <<>>, tries |-> 0, attempts |-> <<>>,
     response |-> [null |-> FALSE, text |-> <<>>], exc |-> "none",
     result |-> <<>>]

\* The web application before any upload: no name, no task, the processor
\* as constructed, no chunk file, no collection.
UploadInit ==
    /\ current_collection_name = 0
    /\ progress_store = <<>>
    /\ uploads = <<>>
    /\ processor = [documents |-> {}, chunks |-> {}]
    /\ rag_chunks = {}
    /\ collections = [name \in 1 .. MaxUploads |-> [exists |-> FALSE, chunks |-> {}]]

\* No message sent yet.
NoRequest ==
    [pc |-> "idle", n |-> 0, text |-> <<>>, before |-> 0, intent |-> "none",
     path |-> "none", taken |-> <<>>, bot_text |-> <<>>, status |-> 0,
     cause |-> "none"]

AroundInit ==
    /\ script = NoScript
    /\ clf = NoClassify
    /\ UploadInit
    /\ chat = NoRequest
    /\ msgs = <<>>

NewUploader ==
    [chunks |-> <<>>, texts |-> <<>>,
     dense_vecs |-> <<>>, sparse_vecs |-> <<>>, colbert_vecs |-> <<>>]

IndexerInit ==
    /\ file = "missing"
    /\ up = NewUploader
    /\ ipc = "idle"
    /\ ioff = 0
    /\ iret = "none"
    /\ ifail = "none"
    /\ ilog = <<>>
    /\ runs = 0
    /\ nextId = 1
    /\ made = <<>>
    /\ inflight = <<>>

(* -------------------- QdrantRAGUploader (index.py) -------------------- *)

\* RunExcept, with the exception raised again to the caller of run().
RunExceptReraise(step) ==
    /\ ipc' = "raised"
    /\ iret' = "none"
    /\ ifail' = step

\* run(), the except clause: whatever step raised, run() returns False.
RunExcept(step) ==
    /\ ipc' = "done"
    /\ iret' = "False"
    /\ ifail' = step

\* QdrantRAGUploader(file_path=f).run() is called.
RunStart(f) ==
    /\ ipc = "idle"
    /\ runs < MaxRuns
    /\ runs' = runs + 1
    /\ file' = f
    /\ up' = NewUploader
    /\ ipc' = "load_chunks"
    /\ ioff' = 0
    /\ iret' = "none"
    /\ ifail' = "none"
    /\ ilog' = <<>>
    /\ UNCHANGED <<coll, nextId, made, inflight>>
    /\ UNCHANGED <<rvars, wvars>>

\* LoadChunks, with the collection set up (deleted) before the file is read.
LoadChunksAfterSetup ==
    /\ ipc = "load_chunks"
    /\ LET f == ChunkFile(file)
       IN \/ /\ ~f.exists
             /\ RunExcept("load_chunks")
             /\ UNCHANGED up
          \/ /\ f.exists
             /\ \E i \in DOMAIN f.chunks : "content" \notin DOMAIN f.chunks[i]
             /\ up' = [up EXCEPT !.chunks = f.chunks]
             /\ RunExcept("load_chunks")
          \/ /\ f.exists
             /\ \A i \in DOMAIN f.chunks : "content" \in DOMAIN f.chunks[i]
             /\ up' = [up EXCEPT !.chunks = f.chunks,
                                 !.texts = [i \in DOMAIN f.chunks |->
                                              f.chunks[i].content]]
             /\ ipc' = "setup_collection"
             /\ UNCHANGED <<iret, ifail>>
    /\ coll' = IF coll.exists THEN DeleteCollection(coll) ELSE coll
    /\ UNCHANGED <<nextId, runs, made, inflight, file, ioff, ilog>>
    /\ UNCHANGED <<rvars, wvars>>

\* load_chunks(): open, json.load, then chunk["content"] of every chunk.
LoadChunks ==
    /\ ipc = "load_chunks"
    /\ LET f == ChunkFile(file)
       IN \/ /\ ~f.exists
             /\ RunExcept("load_chunks")
             /\ UNCHANGED up
          \/ /\ f.exists
             /\ \E i \in DOMAIN f.chunks : "content" \notin DOMAIN f.chunks[i]
             /\ up' = [up EXCEPT !.chunks = f.chunks]
             /\ RunExcept("load_chunks")
          \/ /\ f.exists
             /\ \A i \in DOMAIN f.chunks : "content" \in DOMAIN f.chunks[i]
             /\ up' = [up EXCEPT !.chunks = f.chunks,
                                 !.texts = [i \in DOMAIN f.chunks |->
                                              f.chunks[i].content]]
             /\ ipc' = "setup_collection"
             /\ UNCHANGED <<iret, ifail>>
    /\ UNCHANGED <<coll, nextId, runs, made, inflight, file, ioff, ilog>>
    /\ UNCHANGED <<rvars, wvars>>

\* SetupDelete, waiting until no call of a retrieving object is under way.
SetupDeleteLocked ==
    /\ ipc = "setup_collection"
    /\ rpc \in {"none", "ready"}
    /\ \/ /\ coll' = IF coll.exists THEN DeleteCollection(coll) ELSE coll
          /\ ipc' = "create_collection"
          /\ UNCHANGED <<iret, ifail>>
       \/ /\ RunExcept("setup_collection")
          /\ UNCHANGED coll
    /\ UNCHANGED <<nextId, runs, made, inflight, file, up, ioff, ilog>>
    /\ UNCHANGED <<rvars, wvars>>

\* SetupDelete, keeping a collection that exists as it is (create only if
\* missing).
SetupKeepExisting ==
    /\ ipc = "setup_collection"
    /\ ipc' = IF coll.exists THEN "embed_dense" ELSE "create_collection"
    /\ UNCHANGED <<coll, iret, ifail>>
    /\ UNCHANGED <<nextId, runs, made, inflight, file, up, ioff, ilog>>
    /\ UNCHANGED <<rvars, wvars>>

\* setup_collection(), first half: delete the collection if it exists.
SetupDelete ==
    /\ ipc = "setup_collection"
    /\ \/ /\ coll' = IF coll.exists THEN DeleteCollection(coll) ELSE coll
          /\ ipc' = "create_collection"
          /\ UNCHANGED <<iret, ifail>>
       \/ /\ RunExcept("setup_collection")
          /\ UNCHANGED coll
    /\ UNCHANGED <<nextId, runs, made, inflight, file, up, ioff, ilog>>
    /\ UNCHANGED <<rvars, wvars>>

\* setup_collection(), second half: create_collection with the schema.
\* The store refuses to create a collection that exists.
SetupCreate ==
    /\ ipc = "create_collection"
    /\ \/ /\ ~coll.exists
          /\ coll' = CreateCollection(Schema)
          /\ ipc' = "embed_dense"
          /\ UNCHANGED <<iret, ifail>>
       \/ /\ RunExcept("setup_collection")
          /\ UNCHANGED coll
    /\ UNCHANGED <<nextId, runs, made, inflight, file, up, ioff, ilog>>
    /\ UNCHANGED <<rvars, wvars>>

\* embed_texts(), line 60.
EmbedDense ==
    /\ ipc = "embed_dense"
    /\ \/ /\ up' = [up EXCEPT !.dense_vecs =
                       [i \in DOMAIN up.texts |-> DenseEmbed(up.texts[i])]]
          /\ ipc' = "embed_sparse"
          /\ UNCHANGED <<iret, ifail>>
       \/ /\ RunExcept("embed_texts")
          /\ UNCHANGED up
    /\ UNCHANGED <<coll, nextId, runs, made, inflight, file, ioff, ilog>>
    /\ UNCHANGED <<rvars, wvars>>

\* embed_texts(), line 61.
EmbedSparse ==
    /\ ipc = "embed_sparse"
    /\ \/ /\ up' = [up EXCEPT !.sparse_vecs =
                       [i \in DOMAIN up.texts |-> SparseEmbed(up.texts[i])]]
          /\ ipc' = "embed_late"
          /\ UNCHANGED <<iret, ifail>>
       \/ /\ RunExcept("embed_texts")
          /\ UNCHANGED up
    /\ UNCHANGED <<coll, nextId, runs, made, inflight, file, ioff, ilog>>
    /\ UNCHANGED <<rvars, wvars>>

\* embed_texts(), line 62.
EmbedLate ==
    /\ ipc = "embed_late"
    /\ \/ /\ up' = [up EXCEPT !.colbert_vecs =
                       [i \in DOMAIN up.texts |-> LateEmbed(up.texts[i])]]
          /\ ipc' = "insert_into_qdrant"
          /\ UNCHANGED <<iret, ifail>>
       \/ /\ RunExcept("embed_texts")
          /\ UNCHANGED up
    /\ UNCHANGED <<coll, nextId, runs, made, inflight, file, ioff, ilog>>
    /\ UNCHANGED <<rvars, wvars>>

\* BatchPoints, with ids that start again at 1 in every batch.
BatchPointsReusedIds(u, i, batch_size, first) ==
    [n \in 1 .. (Min(i + batch_size, Len(u.chunks)) - i) |->
        [id |-> n,
         payload |-> [text |-> u.chunks[i + n].content],
         vector |-> [dense |-> u.dense_vecs[i + n],
                     sparse |-> u.sparse_vecs[i + n],
                     late |-> u.colbert_vecs[i + n]]]]

\* insert_into_qdrant(): the points of the batch that starts at chunk i
\* (0-based), with fresh ids first, first+1, ...
BatchPoints(u, i, batch_size, first) ==
    [n \in 1 .. (Min(i + batch_size, Len(u.chunks)) - i) |->
        [id |-> first + n - 1,
         payload |-> [text |-> u.chunks[i + n].content],
         vector |-> [dense |-> u.dense_vecs[i + n],
                     sparse |-> u.sparse_vecs[i + n],
                     late |-> u.colbert_vecs[i + n]]]]

\* InsertBatch, going on to the next batch without waiting for the upsert
\* to return.
InsertBatchNoWait ==
    /\ ipc = "insert_into_qdrant"
    /\ ioff < Len(up.chunks)
    /\ LET batch == BatchPoints(up, ioff, BatchSize, nextId)
       IN /\ nextId' = nextId + Len(batch)
          /\ made' = made \o [n \in DOMAIN batch |-> batch[n].id]
          /\ inflight' = Append(inflight, batch)
          /\ ioff' = ioff + BatchSize
    /\ UNCHANGED <<coll, runs, file, up, ipc, iret, ifail, ilog>>
    /\ UNCHANGED <<rvars, wvars>>

\* insert_into_qdrant(): one turn of the loop up to the call of
\* client.upsert, the batch built (lines 67-78) and submitted (line 79).
InsertBatch ==
    /\ ipc = "insert_into_qdrant"
    /\ ioff < Len(up.chunks)
    /\ LET batch == BatchPoints(up, ioff, BatchSize, nextId)
       IN /\ nextId' = nextId + Len(batch)
          /\ made' = made \o [n \in DOMAIN batch |-> batch[n].id]
          /\ inflight' = Append(inflight, batch)
    /\ ipc' = "upsert"
    /\ UNCHANGED <<coll, runs, file, up, ioff, iret, ifail, ilog>>
    /\ UNCHANGED <<rvars, wvars>>

\* client.upsert returns: the batch is stored and the loop goes on, or the
\* call raises (as it does when the collection is gone) and run() ends.
UpsertReturn ==
    /\ ipc = "upsert"
    /\ LET batch == Head(inflight)
       IN \/ /\ coll.exists
             /\ coll' = Upsert(coll, batch)
             /\ ilog' = Append(ilog, <<batch[1].id, Len(batch), TRUE>>)
             /\ ioff' = ioff + BatchSize
             /\ ipc' = "insert_into_qdrant"
             /\ UNCHANGED <<iret, ifail>>
          \/ /\ ilog' = Append(ilog, <<batch[1].id, Len(batch), FALSE>>)
             /\ RunExcept("insert_into_qdrant")
             /\ UNCHANGED <<coll, ioff>>
    /\ inflight' = Tail(inflight)
    /\ UNCHANGED <<nextId, runs, made, file, up>>
    /\ UNCHANGED <<rvars, wvars>>

\* insert_into_qdrant(): the loop is over, and run() returns True.
InsertDone ==
    /\ ipc = "insert_into_qdrant"
    /\ ioff >= Len(up.chunks)
    /\ ipc' = "done"
    /\ iret' = "True"
    /\ UNCHANGED <<coll, nextId, runs, made, inflight, file, up, ioff, ifail, ilog>>
    /\ UNCHANGED <<rvars, wvars>>

\* The caller has the value run() returned.
RunReturn ==
    /\ ipc = "done"
    /\ ipc' = "idle"
    /\ UNCHANGED <<coll, nextId, runs, made, inflight, file, up, ioff, iret, ifail, ilog>>
    /\ UNCHANGED <<rvars, wvars>>

(* ------------- QdrantRetriever and RAGChatbot (retrieval) ------------- *)

Queries == {<<0>>, <<1>>, <<1, 2, 3>>}
Budgets == {0, 3, MaxBudget - 1, MaxBudget}

NoArgs ==
    [op |-> "none", query |-> <<>>, limit |-> 0, prefetch_limit |-> 0,
     max_tokens |-> 0]
\* No query vector yet: a record without fields.
NoVec == [x \in {} |-> 0]
NoCalls == [dense |-> 0, sparse |-> 0, late |-> 0, search |-> 0, generate |-> 0]

RetrieverInit ==
    /\ bot = "none"
    /\ rpc = "none"
    /\ rloaded = FALSE
    /\ rargs = NoArgs
    /\ rvec = NoVec
    /\ rcalls = NoCalls
    /\ rhits = <<>>
    /\ rout = "none"
    /\ rerr = "none"

\* Raise, with the exception swallowed and an empty list returned.
RaiseSwallowed(e) ==
    /\ rpc' = "done"
    /\ rerr' = e
    /\ rout' = <<>>

\* An exception leaves the constructor or the method: nothing is returned.
Raise(e) ==
    /\ rpc' = "raised"
    /\ rerr' = e
    /\ rout' = "none"

\* QdrantRetriever.__init__: the models are loaded, then _check_collection
\* prints whether the collection exists.
NewRetriever ==
    /\ rpc = "none"
    /\ bot' = "QdrantRetriever"
    /\ rloaded' = TRUE
    /\ rpc' = "ready"
    /\ UNCHANGED <<rargs, rvec, rcalls, rhits, rout, rerr>>
    /\ UNCHANGED <<coll, ivars, wvars>>

\* RAGChatbot.__init__: collection_exists first, raising if it does not;
\* the models are loaded after that.
NewChatbot ==
    /\ rpc = "none"
    /\ bot' = "RAGChatbot"
    /\ \/ /\ ~coll.exists
          /\ Raise("NotFound")
          /\ UNCHANGED rloaded
       \/ /\ coll.exists
          /\ rloaded' = TRUE
          /\ rpc' = "ready"
          /\ UNCHANGED <<rout, rerr>>
       \/ /\ Raise("StorageFailure")
          /\ UNCHANGED rloaded
    /\ UNCHANGED <<rargs, rvec, rcalls, rhits>>
    /\ UNCHANGED <<coll, ivars, wvars>>

\* QdrantRetriever.retrieve(query, limit) is called; p stands for the
\* literal both prefetches get as their limit (lines 40 and 45).
RetrieveWith(q, k, p) ==
    /\ rpc = "ready"
    /\ bot = "QdrantRetriever"
    /\ rargs' = [NoArgs EXCEPT !.op = "retrieve", !.query = q, !.limit = k,
                               !.prefetch_limit = p]
    /\ rpc' = "embed_dense"
    /\ UNCHANGED <<bot, rloaded, rvec, rcalls, rhits, rout, rerr>>
    /\ UNCHANGED <<coll, ivars, wvars>>

\* QdrantRetriever.retrieve(query, limit) is called.
Retrieve(q, k) == RetrieveWith(q, k, RetrieverPrefetchLimit)

\* AnswerQuery, searching with the limits of QdrantRetriever.retrieve.
AnswerQueryRetrieverLimits(q) ==
    /\ rpc = "ready"
    /\ bot = "RAGChatbot"
    /\ rargs' = [NoArgs EXCEPT !.op = "answer_query", !.query = q,
                               !.limit = 2 * ChatLimit,
                               !.prefetch_limit = RetrieverPrefetchLimit]
    /\ rpc' = "embed_dense"
    /\ UNCHANGED <<bot, rloaded, rvec, rcalls, rhits, rout, rerr>>
    /\ UNCHANGED <<coll, ivars, wvars>>

\* RAGChatbot.answer_query(query) is called.
AnswerQuery(q) ==
    /\ rpc = "ready"
    /\ bot = "RAGChatbot"
    /\ rargs' = [NoArgs EXCEPT !.op = "answer_query", !.query = q,
                               !.limit = ChatLimit,
                               !.prefetch_limit = ChatPrefetchLimit]
    /\ rpc' = "embed_dense"
    /\ UNCHANGED <<bot, rloaded, rvec, rcalls, rhits, rout, rerr>>
    /\ UNCHANGED <<coll, ivars, wvars>>

\* next(self.dense_embedding_model.query_embed(query))
QueryEmbedDense ==
    /\ rpc = "embed_dense"
    /\ rcalls' = [rcalls EXCEPT !.dense = @ + 1]
    /\ \/ /\ rvec' = rvec @@ [dense |-> DenseQueryEmbed(rargs.query)]
          /\ rpc' = "embed_sparse"
          /\ UNCHANGED <<rout, rerr>>
       \/ /\ Raise("EmbeddingFailure")
          /\ UNCHANGED rvec
    /\ UNCHANGED <<bot, rloaded, rargs, rhits>>
    /\ UNCHANGED <<coll, ivars, wvars>>

\* QueryEmbedSparse, going on to the search at once, the late-interaction
\* embedding of the query not computed.
QueryEmbedSparseThenSearch ==
    /\ rpc = "embed_sparse"
    /\ rcalls' = [rcalls EXCEPT !.sparse = @ + 1]
    /\ rvec' = rvec @@ [sparse |-> SparseQueryEmbed(rargs.query)]
    /\ rpc' = "search"
    /\ UNCHANGED <<rout, rerr>>
    /\ UNCHANGED <<bot, rloaded, rargs, rhits>>
    /\ UNCHANGED <<coll, ivars, wvars>>

\* next(self.bm25_embedding_model.query_embed(query))
QueryEmbedSparse ==
    /\ rpc = "embed_sparse"
    /\ rcalls' = [rcalls EXCEPT !.sparse = @ + 1]
    /\ \/ /\ rvec' = rvec @@ [sparse |-> SparseQueryEmbed(rargs.query)]
          /\ rpc' = "embed_late"
          /\ UNCHANGED <<rout, rerr>>
       \/ /\ Raise("EmbeddingFailure")
          /\ UNCHANGED rvec
    /\ UNCHANGED <<bot, rloaded, rargs, rhits>>
    /\ UNCHANGED <<coll, ivars, wvars>>

\* next(self.late_interaction_embedding_model.query_embed(query))
QueryEmbedLate ==
    /\ rpc = "embed_late"
    /\ rcalls' = [rcalls EXCEPT !.late = @ + 1]
    /\ \/ /\ rvec' = rvec @@ [late |-> LateQueryEmbed(rargs.query)]
          /\ rpc' = "search"
          /\ UNCHANGED <<rout, rerr>>
       \/ /\ Raise("EmbeddingFailure")
          /\ UNCHANGED rvec
    /\ UNCHANGED <<bot, rloaded, rargs, rhits>>
    /\ UNCHANGED <<coll, ivars, wvars>>

\* "\n\n" between two texts.
SEP == -2

\* "\n\n".join(context_docs)
RECURSIVE Join(_)
Join(docs) ==
    IF docs = <<>> THEN <<>>
    ELSE IF Len(docs) = 1 THEN docs[1]
    ELSE docs[1] \o <<SEP>> \o Join(Tail(docs))

\* point.payload.get("text", str(point.payload))
PayloadText(payload) ==
    IF "text" \in DOMAIN payload THEN payload.text ELSE <<>>

\* What the method hands on once query_points has returned `hits`:
\* retrieve() the payloads, _retrieve_context() the joined texts.
Contexts(b, hits) ==
    IF b = "QdrantRetriever" THEN [r \in DOMAIN hits |-> hits[r].payload]
    ELSE Join([r \in DOMAIN hits |-> PayloadText(hits[r].payload)])

\* client.query_points(...), and what retrieve() / _retrieve_context() make
\* of its result.  The store raises when the collection does not exist.
Search ==
    /\ rpc = "search"
    /\ rcalls' = [rcalls EXCEPT !.search = @ + 1]
    /\ \/ /\ QueryOutcome(coll, rvec, rargs).err # "none"
          /\ Raise(QueryOutcome(coll, rvec, rargs).err)
          /\ UNCHANGED rhits
       \/ /\ Raise("StorageFailure")
          /\ UNCHANGED rhits
       \/ /\ QueryOutcome(coll, rvec, rargs).err = "none"
          /\ rhits' = QueryOutcome(coll, rvec, rargs).hits
          /\ rout' = Contexts(bot, rhits')
          /\ rpc' = IF bot = "QdrantRetriever" THEN "done" ELSE "generate"
          /\ UNCHANGED rerr
    /\ UNCHANGED <<bot, rloaded, rargs, rvec>>
    /\ UNCHANGED <<coll, ivars, wvars>>

\* requests.post to the generation model with the prompt built from the
\* query and the context (answer_query) or from the document
\* (summarize_full_document); the answer stands for its prompt.
Generate ==
    /\ rpc = "generate"
    /\ rcalls' = [rcalls EXCEPT !.generate = @ + 1]
    /\ \/ /\ rout' = <<"response", rargs.query, rout>>
          /\ rpc' = "done"
          /\ UNCHANGED rerr
       \/ Raise("GenerationFailure")
    /\ UNCHANGED <<bot, rloaded, rargs, rvec, rhits>>
    /\ UNCHANGED <<coll, ivars, wvars>>

\* len(self.tokenizer.encode(chunk)): the text's tokens and the two
\* markers the tokenizer adds.
TokenCount(chunk) == Len(chunk) + 2

\* SummarizeStep, going on to the next chunk where the code breaks.
SummarizeStepSkipping(s, chunk, max_tokens) ==
    IF s.total_tokens + TokenCount(chunk) <= max_tokens
    THEN [s EXCEPT !.document_text = @ \o chunk \o <<SEP>>,
                   !.total_tokens = @ + TokenCount(chunk)]
    ELSE s

\* summarize_full_document, one turn of the loop (lines 87-92) from the
\* loop's state s: the chunk is appended whole if it fits, and the loop is
\* left for good if it does not.
SummarizeStep(s, chunk, max_tokens) ==
    IF s.broke THEN s
    ELSE IF s.total_tokens + TokenCount(chunk) <= max_tokens
         THEN [s EXCEPT !.document_text = @ \o chunk \o <<SEP>>,
                        !.total_tokens = @ + TokenCount(chunk)]
         ELSE [s EXCEPT !.broke = TRUE]

\* summarize_full_document, the turns of the loop for the chunks lo .. hi in
\* their order: those of the first half, then from the state they leave
\* those of the second half.  (Halving keeps the evaluation shallow for a
\* page of chunks; the state between the halves is bound as a value.)
RECURSIVE SummarizeLoop(_, _, _, _, _)
SummarizeLoop(all_chunks, lo, hi, s, max_tokens) ==
    IF lo > hi THEN s
    ELSE IF lo = hi THEN SummarizeStep(s, all_chunks[lo], max_tokens)
    ELSE CHOOSE r \in
            {SummarizeLoop(all_chunks, (lo + hi) \div 2 + 1, hi, mid, max_tokens) :
               mid \in {SummarizeLoop(all_chunks, lo, (lo + hi) \div 2, s,
                                      max_tokens)}} : TRUE

\* summarize_full_document, lines 83-92: document_text and total_tokens
\* after the loop over all_chunks.
SummarizeDocument(all_chunks, max_tokens) ==
    LET s == SummarizeLoop(all_chunks, 1, Len(all_chunks),
                           [document_text |-> <<>>, total_tokens |-> 0,
                            broke |-> FALSE], max_tokens)
    IN [document_text |-> s.document_text, total_tokens |-> s.total_tokens]

\* RAGChatbot.summarize_full_document(max_tokens) is called.
Summarize(m) ==
    /\ rpc = "ready"
    /\ bot = "RAGChatbot"
    /\ rargs' = [NoArgs EXCEPT !.op = "summarize_full_document",
                               !.max_tokens = m]
    /\ rpc' = "scroll"
    /\ UNCHANGED <<bot, rloaded, rvec, rcalls, rhits, rout, rerr>>
    /\ UNCHANGED <<coll, ivars, wvars>>

\* summarize_full_document, lines 75-92: the scroll, all_chunks, and the
\* document text the loop builds.
ScrollChunks ==
    /\ rpc = "scroll"
    /\ \/ /\ ~coll.exists
          /\ Raise("NotFound")
          /\ UNCHANGED rhits
       \/ /\ Raise("StorageFailure")
          /\ UNCHANGED rhits
       \/ /\ coll.exists
          /\ LET results == Scroll(coll.points, ScrollLimit)
                 all_chunks == [i \in DOMAIN results |->
                                  PayloadText(results[i].payload)]
             IN /\ rhits' = all_chunks
                /\ rout' = SummarizeDocument(all_chunks, rargs.max_tokens)
          /\ rpc' = "generate"
          /\ UNCHANGED rerr
    /\ UNCHANGED <<bot, rloaded, rargs, rvec, rcalls>>
    /\ UNCHANGED <<coll, ivars, wvars>>

\* Return, with the query vectors of the call kept on the object for the
\* next call.
ReturnKeepingVectors ==
    /\ rpc \in {"done", "raised"}
    /\ IF rloaded
       THEN rpc' = "ready" /\ UNCHANGED <<bot, rloaded>>
       ELSE rpc' = "none" /\ bot' = "none" /\ UNCHANGED rloaded
    /\ rargs' = NoArgs
    /\ rcalls' = NoCalls
    /\ rhits' = <<>>
    /\ rout' = "none"
    /\ rerr' = "none"
    /\ UNCHANGED <<rvec, coll, ivars, wvars>>

\* The caller has the result or the exception.  A constructor that raised
\* leaves no object; otherwise the object stays, with nothing of the call.
Return ==
    /\ rpc \in {"done", "raised"}
    /\ IF rloaded
       THEN rpc' = "ready" /\ UNCHANGED <<bot, rloaded>>
       ELSE rpc' = "none" /\ bot' = "none" /\ UNCHANGED rloaded
    /\ rargs' = NoArgs
    /\ rvec' = NoVec
    /\ rcalls' = NoCalls
    /\ rhits' = <<>>
    /\ rout' = "none"
    /\ rerr' = "none"
    /\ UNCHANGED <<coll, ivars, wvars>>

\* The object is dropped (chat_routes builds a RAGChatbot per request).
Drop ==
    /\ rpc = "ready"
    /\ rpc' = "none"
    /\ bot' = "none"
    /\ rloaded' = FALSE
    /\ UNCHANGED <<rargs, rvec, rcalls, rhits, rout, rerr>>
    /\ UNCHANGED <<coll, ivars, wvars>>

(* --------------------------- specification ---------------------------- *)

Init ==
    /\ coll = NoCollection
    /\ IndexerInit
    /\ RetrieverInit
    /\ AroundInit

IndexerIdle == ipc = "idle"
RetrieverIdle == rpc \in {"none", "ready"}

\* Indexing and serving are separated in time (index fully, then serve):
\* a run starts only between calls, a call only between runs.
Next ==
    \/ \E f \in FileNames : RetrieverIdle /\ RunStart(f)
    \/ LoadChunks
    \/ SetupDelete
    \/ SetupCreate
    \/ EmbedDense
    \/ EmbedSparse
    \/ EmbedLate
    \/ InsertBatch
    \/ UpsertReturn
    \/ InsertDone
    \/ RunReturn
    \/ IndexerIdle /\ NewRetriever
    \/ IndexerIdle /\ NewChatbot
    \/ \E q \in Queries, k \in 0 .. MaxLimit : IndexerIdle /\ Retrieve(q, k)
    \/ \E q \in Queries : IndexerIdle /\ AnswerQuery(q)
    \/ \E m \in Budgets : IndexerIdle /\ Summarize(m)
    \/ QueryEmbedDense
    \/ QueryEmbedSparse
    \/ QueryEmbedLate
    \/ Search
    \/ Generate
    \/ ScrollChunks
    \/ Return
    \/ Drop

Spec == Init /\ [][Next]_vars

(* -------------- a collection larger than one scroll page --------------- *)

\* The chunk file of n one-word chunks.
BulkFile(n) ==
    [exists |-> TRUE, chunks |-> [i \in 1 .. n |-> [content |-> <<1 + (i % 3)>>]]]

\* The uploader after load_chunks() and embed_texts() over the chunks.
Embedded(chunks) ==
    [chunks |-> chunks,
     texts |-> [i \in DOMAIN chunks |-> chunks[i].content],
     dense_vecs |-> [i \in DOMAIN chunks |-> DenseEmbed(chunks[i].content)],
     sparse_vecs |-> [i \in DOMAIN chunks |-> SparseEmbed(chunks[i].content)],
     colbert_vecs |-> [i \in DOMAIN chunks |-> LateEmbed(chunks[i].content)]]

\* insert_into_qdrant(), the turns lo .. hi of the loop over the batches
\* (turn b starts at chunk b * batch_size), every upsert succeeding: the
\* collection they leave.  The ids handed out before turn 0 are below first.
RECURSIVE InsertAll(_, _, _, _, _)
InsertAll(c, u, lo, hi, first) ==
    IF lo > hi THEN c
    ELSE IF lo = hi
         THEN Upsert(c, BatchPoints(u, lo * BatchSize, BatchSize,
                                    first + lo * BatchSize))
    ELSE CHOOSE r \in
            {InsertAll(mid, u, (lo + hi) \div 2 + 1, hi, first) :
               mid \in {InsertAll(c, u, lo, (lo + hi) \div 2, first)}} : TRUE

\* The number of turns of that loop over n chunks.
Batches(n) == (n + BatchSize - 1) \div BatchSize

\* The upsert calls of insert_into_qdrant() over n chunks, all succeeding.
InsertLog(n) ==
    [b \in 1 .. Batches(n) |->
        <<(b - 1) * BatchSize + 1, Min(BatchSize, n - (b - 1) * BatchSize), TRUE>>]

\* The sizes of the indexed file: around one page of the scroll.
ScanSizes == {1} \cup ((ScrollLimit - 1) .. (ScrollLimit + MaxExtra))

\* max_tokens of summarize_full_document(): too small for one chunk, for
\* a few chunks, for exactly one page of chunks, and the default.
ScanBudgets ==
    {0, MaxBudget, ScrollLimit * TokenCount(<<1>>), DefaultMaxTokens}

\* The indexer after a first run() over the chunks of file f has returned
\* True to its caller, and the collection the run has left.
AfterRun(f, chunks) ==
    /\ coll = InsertAll(CreateCollection(Schema), Embedded(chunks),
                        0, Batches(Len(chunks)) - 1, 1)
    /\ file = f
    /\ up = Embedded(chunks)
    /\ ipc = "idle"
    /\ ioff = BatchSize * Batches(Len(chunks))
    /\ iret = "True"
    /\ ifail = "none"
    /\ ilog = InsertLog(Len(chunks))
    /\ runs = 1
    /\ nextId = Len(chunks) + 1
    /\ made = [i \in 1 .. Len(chunks) |-> i]
    /\ inflight = <<>>

\* The store before any run, or after a first run() over a file of n
\* chunks; no retrieving object yet.
ScanInit ==
    /\ RetrieverInit
    /\ AroundInit
    /\ \/ /\ coll = NoCollection
          /\ IndexerInit
       \/ \E n \in ScanSizes : AfterRun("bulk", BulkFile(n).chunks)

\* The chat pipeline summarizing the indexed document.
ScanNext ==
    \/ NewChatbot
    \/ \E m \in ScanBudgets : Summarize(m)
    \/ ScrollChunks
    \/ Generate
    \/ Return
    \/ Drop

ScanSpec == ScanInit /\ [][ScanNext]_vars

(* ------------- the candidate pool for every prefetch limit ------------- *)

\* The store after a first run() over one of the chunk files.
PoolInit ==
    /\ RetrieverInit
    /\ AroundInit
    /\ \E f \in {"empty", "small", "large"} : AfterRun(f, ChunkFile(f).chunks)

\* A retriever searching the indexed collection, with the prefetch limit
\* of the call drawn from 0 .. MaxPrefetch.
PoolNext ==
    \/ NewRetriever
    \/ \E q \in Queries, p \in 0 .. MaxPrefetch : RetrieveWith(q, MaxLimit, p)
    \/ QueryEmbedDense
    \/ QueryEmbedSparse
    \/ QueryEmbedLate
    \/ Search
    \/ Return

PoolSpec == PoolInit /\ [][PoolNext]_vars

(* ------------- indexing and retrieval at the same time ---------------- *)

\* upload_file() starts run() in a background thread and answers with the
\* collection name at once, so send_message() can build a RAGChatbot on
\* the collection, and a retriever can search it, while the run is under
\* way: the steps of the two interleave freely.
ConcNext ==
    \/ \E f \in {"small", "large"} : RunStart(f)
    \/ LoadChunks
    \/ SetupDelete
    \/ SetupCreate
    \/ EmbedDense
    \/ EmbedSparse
    \/ EmbedLate
    \/ InsertBatch
    \/ UpsertReturn
    \/ InsertDone
    \/ RunReturn
    \/ NewRetriever
    \/ NewChatbot
    \/ Retrieve(<<1>>, MaxLimit)
    \/ AnswerQuery(<<1>>)
    \/ QueryEmbedDense
    \/ QueryEmbedSparse
    \/ QueryEmbedLate
    \/ Search
    \/ Generate
    \/ Return
    \/ Drop

ConcSpec == Init /\ [][ConcNext]_vars

(* ------------------ the indexing script (src/embedding.py) ------------- *)

\* The models the index writer, the script, the retriever and the chatbot
\* load, by the space each feeds.
UploaderModels ==
    [dense  |-> "sentence-transformers/all-MiniLM-L6-v2",
     sparse |-> "Qdrant/bm25",
     late   |-> "colbert-ir/colbertv2.0"]
ScriptModels ==
    [dense  |-> "sentence-transformers/all-MiniLM-L6-v2",
     sparse |-> "Qdrant/bm25",
     late   |-> "colbert-ir/colbertv2.0"]
RetrieverModels ==
    [dense  |-> "sentence-transformers/all-MiniLM-L6-v2",
     sparse |-> "Qdrant/bm25",
     late   |-> "colbert-ir/colbertv2.0"]
ChatbotModels ==
    [dense  |-> "sentence-transformers/all-MiniLM-L6-v2",
     sparse |-> "Qdrant/bm25",
     late   |-> "colbert-ir/colbertv2.0"]

\* The width of the vectors a model puts out (the sparse model has none).
ModelWidth(model) ==
    CASE model = "sentence-transformers/all-MiniLM-L6-v2" -> DenseWidth
      [] model = "colbert-ir/colbertv2.0" -> LateWidth

\* vectors_config / sparse_vectors_config of the script's create_collection:
\* the late-interaction space is declared with the size of the dense one.
ScriptSchema ==
    [dense  |-> [size |-> ScriptDenseSize, distance |-> "Cosine"],
     late   |-> [size |-> ScriptLateSize, distance |-> "Cosine",
                 comparator |-> "MaxSim"],
     sparse |-> [modifier |-> "Idf"]]

\* The chunk files the script is given: it reads the key "text".
ScriptFile(name) ==
    CASE name = "missing" -> [exists |-> FALSE, chunks |-> <<>>]
      [] name = "content" -> [exists |-> TRUE, chunks |-> <<[content |-> <<1>>]>>]
      [] name = "empty"   -> [exists |-> TRUE, chunks |-> <<>>]
      [] name = "example" -> [exists |-> TRUE,
                              chunks |-> <<[text |-> <<1, 2>>, id |-> 0],
                                           [text |-> <<0, 3>>, id |-> 1],
                                           [text |-> <<1>>, id |-> 2]>>]

ScriptFiles == {"missing", "content", "empty", "example"}

\* None of the index writer's own state changes.
UploaderUnchanged == UNCHANGED <<file, up, ipc, ioff, iret, ifail, ilog, inflight>>

\* Lines 9-18: the chunks are loaded, texts = chunk["text"] of every chunk.
ScriptLoad(f) ==
    /\ script.pc = "none"
    /\ runs < MaxRuns
    /\ runs' = runs + 1
    /\ LET cf == ScriptFile(f)
       IN IF cf.exists /\ \A i \in DOMAIN cf.chunks : "text" \in DOMAIN cf.chunks[i]
          THEN script' = [NoScript EXCEPT
                             !.pc = "create", !.chunks = cf.chunks,
                             !.texts = [i \in DOMAIN cf.chunks |-> cf.chunks[i].text]]
          ELSE script' = [NoScript EXCEPT !.pc = "raised"]
    /\ UploaderUnchanged
    /\ UNCHANGED NotScript
    /\ UNCHANGED <<coll, nextId, made, rvars>>

\* Lines 27-51: the collection is created unless it exists.
ScriptCreate ==
    /\ script.pc = "create"
    /\ \/ /\ coll' = IF coll.exists THEN coll ELSE CreateCollection(ScriptSchema)
          /\ script' = [script EXCEPT !.pc = "embed"]
       \/ /\ script' = [script EXCEPT !.pc = "raised"]
          /\ UNCHANGED coll
    /\ UploaderUnchanged
    /\ UNCHANGED NotScript
    /\ UNCHANGED <<runs, nextId, made, rvars>>

\* Lines 56-64: passage_embed of the three models, then colbert_vecs[0][0]
\* is looked at, which raises when there is no chunk.
ScriptEmbed ==
    /\ script.pc = "embed"
    /\ \/ /\ script.texts # <<>>
          /\ script' = [script EXCEPT
                !.pc = "upsert",
                !.dense_vecs = [i \in DOMAIN script.texts |-> DenseEmbed(script.texts[i])],
                !.sparse_vecs = [i \in DOMAIN script.texts |-> SparseEmbed(script.texts[i])],
                !.colbert_vecs = [i \in DOMAIN script.texts |-> LateEmbed(script.texts[i])]]
       \/ script' = [script EXCEPT !.pc = "raised"]
    /\ UploaderUnchanged
    /\ UNCHANGED NotScript
    /\ UNCHANGED <<coll, runs, nextId, made, rvars>>

\* Lines 67-86: one point per chunk, with a fresh id.
ScriptPoints(sc, first) ==
    [n \in DOMAIN sc.chunks |->
        [id |-> first + n - 1,
         payload |-> [text |-> sc.chunks[n].text, chunk_id |-> sc.chunks[n].id],
         vector |-> [dense |-> sc.dense_vecs[n],
                     sparse |-> sc.sparse_vecs[n],
                     late |-> sc.colbert_vecs[n]]]]

\* Line 90: all points in one upsert, which stores them or raises.
ScriptUpsert ==
    /\ script.pc = "upsert"
    /\ LET points == ScriptPoints(script, nextId)
       IN /\ nextId' = nextId + Len(points)
          /\ made' = made \o [n \in DOMAIN points |-> points[n].id]
          /\ \/ /\ coll.exists
                /\ coll' = Upsert(coll, points)
                /\ script' = [script EXCEPT !.pc = "done"]
             \/ /\ script' = [script EXCEPT !.pc = "raised"]
                /\ UNCHANGED coll
    /\ UploaderUnchanged
    /\ UNCHANGED NotScript
    /\ UNCHANGED <<runs, rvars>>

\* The script's process has ended.
ScriptExit ==
    /\ script.pc \in {"done", "raised"}
    /\ script' = NoScript
    /\ UploaderUnchanged
    /\ UNCHANGED NotScript
    /\ UNCHANGED <<coll, runs, nextId, made, rvars>>

\* The script builds the collection "myRag" of the store at its path, and
\* a QdrantRetriever on the same store searches it.
ScriptNext ==
    \/ \E f \in ScriptFiles : ScriptLoad(f)
    \/ ScriptCreate
    \/ ScriptEmbed
    \/ ScriptUpsert
    \/ ScriptExit
    \/ script.pc = "none" /\ NewRetriever
    \/ \E q \in Queries : script.pc = "none" /\ Retrieve(q, MaxLimit)
    \/ QueryEmbedDense
    \/ QueryEmbedSparse
    \/ QueryEmbedLate
    \/ Search
    \/ Return

ScriptSpec == Init /\ [][ScriptNext]_vars

(* --------------- IntentClassifier (src/intent_classify.py) ------------- *)

\* A string is the sequence of its characters.
QUESTION_ANSWERING ==
    <<"Q", "u", "e", "s", "t", "i", "o", "n", " ", "A", "n", "s", "w",
      "e", "r", "i", "n", "g">>
SUMMARIZE_FULL ==
    <<"S", "u", "m", "m", "a", "r", "i", "z", "e", " ", "F", "u", "l",
      "l", " ", "D", "o", "c", "u", "m", "e", "n", "t">>
SUMMARIZE_SECTION ==
    <<"S", "u", "m", "m", "a", "r", "i", "z", "e", " ", "S", "e", "c",
      "t", "i", "o", "n">>
FIND_SECTION ==
    <<"F", "i", "n", "d", " ", "S", "e", "c", "t", "i", "o", "n">>
COMPARE_SECTIONS ==
    <<"C", "o", "m", "p", "a", "r", "e", " ", "S", "e", "c", "t", "i",
      "o", "n", "s">>
\* DocumentIntent.OTHER (the name OTHER is a word of the language).
OtherIntent ==
    <<"O", "t", "h", "e", "r">>

\* class DocumentIntent(str, Enum): the members in the order of the class.
DocumentIntent ==
    <<QUESTION_ANSWERING, SUMMARIZE_FULL, SUMMARIZE_SECTION, FIND_SECTION,
      COMPARE_SECTIONS, OtherIntent>>

\* What the model answers: every intent name as it is, and
\*   exact, with white space around,
\*   in double quotes,
\*   in single quotes inside double quotes,
\*   in double quotes inside single quotes,
\*   in lower case,
\*   inside a sentence,
\*   two names, the later of the enumeration first,
\*   the label of another classifier,
\*   part of a name,
\*   a name with a letter changed,
\*   white space only,
\*   nothing.
ModelOutputs ==
    Range(DocumentIntent) \cup
    {<<" ", " ", "S", "u", "m", "m", "a", "r", "i", "z", "e", " ", "F",
       "u", "l", "l", " ", "D", "o", "c", "u", "m", "e", "n", "t", " ",
       "\n">>,
     <<"\"", "F", "i", "n", "d", " ", "S", "e", "c", "t", "i", "o",
       "n", "\"">>,
     <<"\"", "'", "C", "o", "m", "p", "a", "r", "e", " ", "S", "e",
       "c", "t", "i", "o", "n", "s", "'", "\"">>,
     <<"'", "\"", "O", "t", "h", "e", "r", "\"", "'">>,
     <<"q", "u", "e", "s", "t", "i", "o", "n", " ", "a", "n", "s", "w",
       "e", "r", "i", "n", "g">>,
     <<"T", "h", "e", " ", "i", "n", "t", "e", "n", "t", " ", "i", "s",
       " ", "C", "o", "m", "p", "a", "r", "e", " ", "S", "e", "c", "t",
       "i", "o", "n", "s", ".">>,
     <<"S", "u", "m", "m", "a", "r", "i", "z", "e", " ", "S", "e", "c",
       "t", "i", "o", "n", " ", "o", "r", " ", "S", "u", "m", "m", "a",
       "r", "i", "z", "e", " ", "F", "u", "l", "l", " ", "D", "o", "c",
       "u", "m", "e", "n", "t">>,
     <<"Q", "&", "A">>,
     <<"S", "u", "m", "m", "a", "r", "i", "z", "e">>,
     <<"F", "i", "n", "d", " ", "S", "e", "c", "t", "o", "i", "n">>,
     <<" ", "\n">>,
     <<>>}

\* The user inputs: empty, white space only, and two requests.
UserInputs ==
    {<<>>, <<" ", "\n", " ">>, <<"s", "u", "m", "m", "a", "r", "i", "z", "e", " ", "i", "t">>, <<"W", "h", "a", "t", " ", "i", "s", " ", "a", " ", "h", "o", "r",
       "m", "o", "n", "e", "?">>}

WhiteSpace == {" ", "\n", "\t"}

UpperCase ==
    <<"A", "B", "C", "D", "E", "F", "G", "H", "I", "J", "K", "L", "M",
      "N", "O", "P", "Q", "R", "S", "T", "U", "V", "W", "X", "Y", "Z">>
LowerCase ==
    <<"a", "b", "c", "d", "e", "f", "g", "h", "i", "j", "k", "l", "m",
      "n", "o", "p", "q", "r", "s", "t", "u", "v", "w", "x", "y", "z">>

\* str.lower() of one character.
LowerChar(c) ==
    IF \E i \in DOMAIN UpperCase : UpperCase[i] = c
    THEN LowerCase[CHOOSE i \in DOMAIN UpperCase : UpperCase[i] = c]
    ELSE c

\* str.lower()
Lower(str) == [i \in DOMAIN str |-> LowerChar(str[i])]

\* str.lstrip(chars) and str.rstrip(chars)
RECURSIVE LStrip(_, _)
LStrip(str, chars) ==
    IF str # <<>> /\ Head(str) \in chars THEN LStrip(Tail(str), chars) ELSE str

RECURSIVE RStrip(_, _)
RStrip(str, chars) ==
    IF str # <<>> /\ str[Len(str)] \in chars
    THEN RStrip(SubSeq(str, 1, Len(str) - 1), chars)
    ELSE str

\* str.strip(chars); str.strip() is StripChars(str, WhiteSpace).
StripChars(str, chars) == RStrip(LStrip(str, chars), chars)

\* sub in str
Contains(str, sub) ==
    \E i \in 0 .. (Len(str) - Len(sub)) : SubSeq(str, i + 1, i + Len(sub)) = sub

\* Line 147: response.strip().strip('"').strip("'")
Cleaned(response) ==
    StripChars(StripChars(StripChars(response, WhiteSpace), {"\""}), {"'"})

\* MapIntent, handing the cleaned label on when it maps to no intent.
MapIntentRaw(response) ==
    LET cleaned_response == Cleaned(response)
        partial == {n \in DOMAIN DocumentIntent :
                      Contains(Lower(cleaned_response), Lower(DocumentIntent[n]))}
    IN IF cleaned_response \in Range(DocumentIntent) THEN <<cleaned_response, 9>>
       ELSE IF partial # {}
       THEN <<DocumentIntent[CHOOSE n \in partial : \A m \in partial : n <= m], 7>>
       ELSE <<cleaned_response, 5>>

\* Lines 147-163: the intent and the confidence (in tenths) for a response
\* of the model: the member with that value, else the first member of the
\* class whose value, in lower case, is part of the response in lower
\* case, else OtherIntent.
MapIntent(response) ==
    LET cleaned_response == Cleaned(response)
        partial == {n \in DOMAIN DocumentIntent :
                      Contains(Lower(cleaned_response), Lower(DocumentIntent[n]))}
    IN IF cleaned_response \in Range(DocumentIntent) THEN <<cleaned_response, 9>>
       ELSE IF partial # {}
       THEN <<DocumentIntent[CHOOSE n \in partial : \A m \in partial : n <= m], 7>>
       ELSE <<OtherIntent, 5>>

\* How one requests.post of _call_ollama ends: with the model's answer
\* (a string, or null for the field "response"), with a body that is JSON
\* but no object (AttributeError on .get), or with an exception of
\* requests; raise_for_status raises HTTPError for these statuses.
Outcomes ==
    {[kind |-> "ok", status |-> 200, null |-> FALSE, text |-> o] : o \in ModelOutputs}
    \cup {[kind |-> "ok", status |-> 200, null |-> TRUE, text |-> <<>>]}
    \cup {[kind |-> k, status |-> 0, null |-> FALSE, text |-> <<>>] :
            k \in {"ConnectionError", "Timeout", "JSONDecodeError"}}
    \cup {[kind |-> "AttributeError", status |-> 200, null |-> FALSE, text |-> <<>>]}
    \cup {[kind |-> "HTTPError", status |-> st, null |-> FALSE, text |-> <<>>] :
            st \in {400, 404, 499, 500, 503}}

\* The exceptions the decorator retries on: RequestException (with its
\* subclasses) and json.JSONDecodeError.
Retried(o) ==
    o.kind \in {"ConnectionError", "Timeout", "HTTPError", "JSONDecodeError"}

\* giveup=lambda e: isinstance(e, HTTPError) and e.response.status_code < 500
Giveup(o) == o.kind = "HTTPError" /\ o.status < GiveupBelow

\* classify(user_input) is called: an empty or blank input returns at once.
Classify(input) ==
    /\ clf.pc = "idle"
    /\ clf' = IF StripChars(input, WhiteSpace) = <<>>
              THEN [NoClassify EXCEPT !.pc = "returned", !.input = input,
                                      !.result = <<OtherIntent, 0>>]
              ELSE [NoClassify EXCEPT !.pc = "call", !.input = input]
    /\ UNCHANGED <<coll, ivars, rvars, NotClassifier>>

\* CallOllama, retrying whatever the status of an HTTP error.
CallOllamaNoGiveup(o) ==
    /\ clf.pc = "call"
    /\ clf' = [clf EXCEPT
          !.tries = @ + 1,
          !.attempts = Append(@, <<o.kind, o.status>>),
          !.response = IF o.kind = "ok" THEN [null |-> o.null, text |-> o.text]
                       ELSE @,
          !.exc = IF o.kind = "ok" THEN @ ELSE o.kind,
          !.pc = IF o.kind = "ok" THEN "map"
                 ELSE IF Retried(o) /\ clf.tries + 1 # MaxTries
                 THEN "backoff"
                 ELSE "except"]
    /\ UNCHANGED <<coll, ivars, rvars, NotClassifier>>

\* One try of _call_ollama under the decorator: the answer is returned;
\* an exception the decorator retries on, that is not given up on, before
\* the last try, is waited after; any other leaves _call_ollama.
CallOllama(o) ==
    /\ clf.pc = "call"
    /\ clf' = [clf EXCEPT
          !.tries = @ + 1,
          !.attempts = Append(@, <<o.kind, o.status>>),
          !.response = IF o.kind = "ok" THEN [null |-> o.null, text |-> o.text]
                       ELSE @,
          !.exc = IF o.kind = "ok" THEN @ ELSE o.kind,
          !.pc = IF o.kind = "ok" THEN "map"
                 ELSE IF Retried(o) /\ ~Giveup(o) /\ clf.tries + 1 # MaxTries
                 THEN "backoff"
                 ELSE "except"]
    /\ UNCHANGED <<coll, ivars, rvars, NotClassifier>>

\* The decorator has slept; _call_ollama is called again.
Backoff ==
    /\ clf.pc = "backoff"
    /\ clf' = [clf EXCEPT !.pc = "call", !.exc = "none"]
    /\ UNCHANGED <<coll, ivars, rvars, NotClassifier>>

\* Lines 147-168: the response is cleaned and mapped (None has no strip).
MapResponse ==
    /\ clf.pc = "map"
    /\ clf' = IF clf.response.null
              THEN [clf EXCEPT !.pc = "except", !.exc = "AttributeError"]
              ELSE [clf EXCEPT !.pc = "returned",
                               !.result = MapIntent(clf.response.text)]
    /\ UNCHANGED <<coll, ivars, rvars, NotClassifier>>

\* Lines 170-173: except Exception.
ClassifyExcept ==
    /\ clf.pc = "except"
    /\ clf' = [clf EXCEPT !.pc = "returned", !.result = <<OtherIntent, 0>>]
    /\ UNCHANGED <<coll, ivars, rvars, NotClassifier>>

\* The caller has the pair classify() returned.
ClassifyReturn ==
    /\ clf.pc = "returned"
    /\ clf' = NoClassify
    /\ UNCHANGED <<coll, ivars, rvars, NotClassifier>>

IntentNext ==
    \/ \E input \in UserInputs : Classify(input)
    \/ \E o \in Outcomes : CallOllama(o)
    \/ Backoff
    \/ MapResponse
    \/ ClassifyExcept
    \/ ClassifyReturn

IntentSpec == Init /\ [][IntentNext]_vars

(* -------- upload_file and background_process (chat_routes.py) --------- *)

\* Upload number u is the u-th request; its task id is u, its PDF is u, and
\* the name line 193 makes for its collection is u.  The chunks of a document are
\* known by the PDF they come from.

\* upload_file, lines 147-198: the file is saved, the task has progress 0,
\* the PDF row is committed as processing, the global is given a new name
\* and the background thread is started.
NewUpload ==
    [pc |-> "respond", tpc |-> "start", response_name |-> 0,
     indexer_name |-> 0, indexer_chunks |-> {}, success |-> "none",
     status |-> "processing", cause |-> "none"]

UploadFile ==
    /\ Len(uploads) < MaxUploads
    /\ uploads' = Append(uploads, NewUpload)
    /\ progress_store' = Append(progress_store, 0)
    /\ current_collection_name' = Len(uploads) + 1
    /\ UNCHANGED <<processor, rag_chunks, collections>>
    /\ UNCHANGED <<coll, ivars, rvars, NotUpload>>

\* Lines 200-207: the response, with "collection_name" read from the global.
Respond(u) ==
    /\ uploads[u].pc = "respond"
    /\ uploads' = [uploads EXCEPT ![u].pc = "answered",
                                  ![u].response_name = current_collection_name]
    /\ UNCHANGED <<current_collection_name, progress_store, processor,
                   rag_chunks, collections>>
    /\ UNCHANGED <<coll, ivars, rvars, NotUpload>>

\* An exception leaves background_process: the thread ends, and its
\* indexer, if it had one, with it.
ThreadDies(u, why) ==
    uploads' = [uploads EXCEPT ![u].tpc = "dead", ![u].cause = why,
                              ![u].indexer_name = 0, ![u].indexer_chunks = {}]

\* Line 223, progress_store[task_id] = 25, and process_pdf_for_rag up to
\* extract.py 236: the processor is cleared.
ProcessorReset(u) ==
    /\ uploads[u].tpc = "start"
    /\ progress_store' = [progress_store EXCEPT ![u] = 25]
    /\ processor' = [documents |-> {}, chunks |-> {}]
    /\ uploads' = [uploads EXCEPT ![u].tpc = "load_pdf"]
    /\ UNCHANGED <<current_collection_name, rag_chunks, collections>>
    /\ UNCHANGED <<coll, ivars, rvars, NotUpload>>

\* load_pdf, extract.py 50-85: the pages are added to self.documents, or
\* the loader raises.
LoadPdf(u) ==
    /\ uploads[u].tpc = "load_pdf"
    /\ \/ /\ processor' = [processor EXCEPT !.documents = @ \cup {u}]
          /\ uploads' = [uploads EXCEPT ![u].tpc = "chunk_documents"]
       \/ /\ ThreadDies(u, "chunking")
          /\ UNCHANGED processor
    /\ UNCHANGED <<current_collection_name, progress_store, rag_chunks, collections>>
    /\ UNCHANGED <<coll, ivars, rvars, NotUpload>>

\* chunk_documents, extract.py 87-118: self.chunks = the chunks of
\* self.documents; ValueError when there is no document.
ChunkDocuments(u) ==
    /\ uploads[u].tpc = "chunk_documents"
    /\ IF processor.documents = {}
       THEN ThreadDies(u, "chunking") /\ UNCHANGED processor
       ELSE /\ processor' = [processor EXCEPT !.chunks = processor.documents]
            /\ uploads' = [uploads EXCEPT ![u].tpc = "save_chunks"]
    /\ UNCHANGED <<current_collection_name, progress_store, rag_chunks, collections>>
    /\ UNCHANGED <<coll, ivars, rvars, NotUpload>>

\* save_chunks_json("rag_chunks.json"), extract.py 120-147: self.chunks is
\* written to the file (ValueError when there is no chunk); then line
\* 227, progress_store[task_id] = 50.
SaveChunks(u) ==
    /\ uploads[u].tpc = "save_chunks"
    /\ IF processor.chunks = {}
       THEN ThreadDies(u, "chunking") /\ UNCHANGED <<rag_chunks, progress_store>>
       ELSE /\ rag_chunks' = processor.chunks
            /\ progress_store' = [progress_store EXCEPT ![u] = 50]
            /\ uploads' = [uploads EXCEPT ![u].tpc = "new_indexer"]
    /\ UNCHANGED <<current_collection_name, processor, collections>>
    /\ UNCHANGED <<coll, ivars, rvars, NotUpload>>

\* Lines 230-233: QdrantRAGUploader(file_path="./my_rag_chunks/rag_chunks.json",
\* collection_name=current_collection_name), the global read now.
NewIndexer(u) ==
    /\ uploads[u].tpc = "new_indexer"
    /\ \/ uploads' = [uploads EXCEPT ![u].tpc = "load_chunks",
                                     ![u].indexer_name = current_collection_name]
       \/ ThreadDies(u, "indexer")
    /\ UNCHANGED <<current_collection_name, progress_store, processor,
                   rag_chunks, collections>>
    /\ UNCHANGED <<coll, ivars, rvars, NotUpload>>

\* run(): load_chunks reads the file (index.py 23-27); a failure makes
\* run() return False.
IndexerLoadChunks(u) ==
    /\ uploads[u].tpc = "load_chunks"
    /\ \/ uploads' = [uploads EXCEPT ![u].tpc = "store",
                                     ![u].indexer_chunks = rag_chunks]
       \/ uploads' = [uploads EXCEPT ![u].tpc = "run_returned", ![u].success = "False"]
    /\ UNCHANGED <<current_collection_name, progress_store, processor,
                   rag_chunks, collections>>
    /\ UNCHANGED <<coll, ivars, rvars, NotUpload>>

\* run(): setup_collection, embed_texts and insert_into_qdrant on the
\* indexer's collection; a failure after setup_collection leaves the
\* collection empty and makes run() return False.
IndexerStore(u) ==
    /\ uploads[u].tpc = "store"
    /\ \/ /\ collections' = [collections EXCEPT ![uploads[u].indexer_name] =
                                [exists |-> TRUE, chunks |-> uploads[u].indexer_chunks]]
          /\ uploads' = [uploads EXCEPT ![u].tpc = "run_returned", ![u].success = "True"]
       \/ /\ collections' = [collections EXCEPT ![uploads[u].indexer_name] =
                                [exists |-> TRUE, chunks |-> {}]]
          /\ uploads' = [uploads EXCEPT ![u].tpc = "run_returned", ![u].success = "False"]
       \/ /\ UNCHANGED collections
          /\ uploads' = [uploads EXCEPT ![u].tpc = "run_returned", ![u].success = "False"]
    /\ UNCHANGED <<current_collection_name, progress_store, processor, rag_chunks>>
    /\ UNCHANGED <<coll, ivars, rvars, NotUpload>>

\* RunReturned, going on whatever run() returned.
RunReturnedUnchecked(u) ==
    /\ uploads[u].tpc = "run_returned"
    /\ progress_store' = [progress_store EXCEPT ![u] = 75]
    /\ uploads' = [uploads EXCEPT ![u].tpc = "commit"]
    /\ UNCHANGED <<current_collection_name, processor, rag_chunks, collections>>
    /\ UNCHANGED <<coll, ivars, rvars, NotUpload>>

\* Lines 235-239: an exception if run() returned False, else progress 75.
RunReturned(u) ==
    /\ uploads[u].tpc = "run_returned"
    /\ IF uploads[u].success = "True"
       THEN /\ progress_store' = [progress_store EXCEPT ![u] = 75]
            /\ uploads' = [uploads EXCEPT ![u].tpc = "commit"]
       ELSE /\ ThreadDies(u, "run_false")
            /\ UNCHANGED progress_store
    /\ UNCHANGED <<current_collection_name, processor, rag_chunks, collections>>
    /\ UNCHANGED <<coll, ivars, rvars, NotUpload>>

\* Lines 242-244: the PDF row is committed with status 'success'.
CommitStatus(u) ==
    /\ uploads[u].tpc = "commit"
    /\ \/ uploads' = [uploads EXCEPT ![u].tpc = "progress100", ![u].status = "success"]
       \/ ThreadDies(u, "commit")
    /\ UNCHANGED <<current_collection_name, progress_store, processor,
                   rag_chunks, collections>>
    /\ UNCHANGED <<coll, ivars, rvars, NotUpload>>

\* Lines 246-247: after the sleep, progress_store[task_id] = 100
Progress100(u) ==
    /\ uploads[u].tpc = "progress100"
    /\ progress_store' = [progress_store EXCEPT ![u] = 100]
    /\ uploads' = [uploads EXCEPT ![u].tpc = "finished",
                                  ![u].indexer_name = 0, ![u].indexer_chunks = {}]
    /\ UNCHANGED <<current_collection_name, processor, rag_chunks, collections>>
    /\ UNCHANGED <<coll, ivars, rvars, NotUpload>>

\* The requests are served by threads and every upload has its background
\* thread: their steps interleave freely.
UploadNext ==
    \/ UploadFile
    \/ \E u \in DOMAIN uploads : Respond(u)
    \/ \E u \in DOMAIN uploads : ProcessorReset(u)
    \/ \E u \in DOMAIN uploads : LoadPdf(u)
    \/ \E u \in DOMAIN uploads : ChunkDocuments(u)
    \/ \E u \in DOMAIN uploads : SaveChunks(u)
    \/ \E u \in DOMAIN uploads : NewIndexer(u)
    \/ \E u \in DOMAIN uploads : IndexerLoadChunks(u)
    \/ \E u \in DOMAIN uploads : IndexerStore(u)
    \/ \E u \in DOMAIN uploads : RunReturned(u)
    \/ \E u \in DOMAIN uploads : CommitStatus(u)
    \/ \E u \in DOMAIN uploads : Progress100(u)

UploadSpec == Init /\ [][UploadNext]_vars

\* upload_file from its first line to its last as one step: the request
\* is answered with the name it has just put in the global.
UploadFileAnswered ==
    /\ Len(uploads) < MaxUploads
    /\ uploads' = Append(uploads, [NewUpload EXCEPT !.pc = "answered",
                                                    !.response_name = Len(uploads) + 1])
    /\ progress_store' = Append(progress_store, 0)
    /\ current_collection_name' = Len(uploads) + 1
    /\ UNCHANGED <<processor, rag_chunks, collections>>
    /\ UNCHANGED <<coll, ivars, rvars, NotUpload>>

\* The tasks of the uploads: each request served in one piece, the
\* background threads interleaving freely.
TaskNext ==
    \/ UploadFileAnswered
    \/ \E u \in DOMAIN uploads : ProcessorReset(u)
    \/ \E u \in DOMAIN uploads : LoadPdf(u)
    \/ \E u \in DOMAIN uploads : ChunkDocuments(u)
    \/ \E u \in DOMAIN uploads : SaveChunks(u)
    \/ \E u \in DOMAIN uploads : NewIndexer(u)
    \/ \E u \in DOMAIN uploads : IndexerLoadChunks(u)
    \/ \E u \in DOMAIN uploads : IndexerStore(u)
    \/ \E u \in DOMAIN uploads : RunReturned(u)
    \/ \E u \in DOMAIN uploads : CommitStatus(u)
    \/ \E u \in DOMAIN uploads : Progress100(u)

TaskSpec == Init /\ [][TaskNext]_vars

(* ------------------- send_message (chat_routes.py) -------------------- *)

\* A blank character of a user's text; the other items of a text are its
\* words.
SP == -3

\* The words the tokenizers of the models make of a text.
Words(text) == SelectSeq(text, LAMBDA t : t # SP)

\* data.get('text', ''): missing or empty, blank, and texts with words.
UserTexts == {<<>>, <<SP>>, <<SP, SP>>, <<1>>, <<SP, 1, 2, 3>>}

\* id2label of app/services/intent.py.
IntentLabels == {"Q&A", "Summarize Full Document"}

\* The request ends with an exception: Flask answers 500.
RequestFails(why) ==
    chat' = [chat EXCEPT !.pc = "failed", !.status = 500, !.cause = why]

\* SendMessage, without the check of lines 95-99.
SendMessageUnchecked(text) ==
    /\ chat.pc \in {"idle", "responded", "failed"}
    /\ rpc = "none"
    /\ chat.n < MaxRequests
    /\ \/ /\ msgs' = Append(msgs, [sender |-> "user", text |-> text,
                                    request |-> chat.n + 1])
          /\ chat' = [NoRequest EXCEPT !.n = chat.n + 1, !.text = text,
                                       !.before = Len(msgs), !.pc = "construct"]
       \/ /\ UNCHANGED msgs
          /\ chat' = [NoRequest EXCEPT !.n = chat.n + 1, !.text = text,
                                       !.before = Len(msgs), !.pc = "failed",
                                       !.status = 500, !.cause = "commit"]
    /\ UNCHANGED <<coll, ivars, rvars, NotChat>>

\* Lines 88-111: a text that is blank after strip() is answered with 400;
\* otherwise the user's Message is added and committed.  `request` says
\* which request a row belongs to; `before` is the number of rows the chat
\* had when the request came.
SendMessage(text) ==
    /\ chat.pc \in {"idle", "responded", "failed"}
    /\ rpc = "none"
    /\ chat.n < MaxRequests
    /\ IF StripChars(text, {SP}) = <<>>
       THEN /\ UNCHANGED msgs
            /\ chat' = [NoRequest EXCEPT !.n = chat.n + 1, !.text = text,
                                         !.before = Len(msgs), !.pc = "responded",
                                         !.status = 400]
       ELSE \/ /\ msgs' = Append(msgs, [sender |-> "user", text |-> text,
                                         request |-> chat.n + 1])
               /\ chat' = [NoRequest EXCEPT !.n = chat.n + 1, !.text = text,
                                            !.before = Len(msgs),
                                            !.pc = "construct"]
            \/ /\ UNCHANGED msgs
               /\ chat' = [NoRequest EXCEPT !.n = chat.n + 1, !.text = text,
                                            !.before = Len(msgs), !.pc = "failed",
                                            !.status = 500, !.cause = "commit"]
    /\ UNCHANGED <<coll, ivars, rvars, NotChat>>

\* Line 112: RAGChatbot(collection_name=collection_name) raised.
ConstructorRaised ==
    /\ chat.pc = "construct"
    /\ rpc = "raised"
    /\ RequestFails("constructor")
    /\ UNCHANGED msgs
    /\ UNCHANGED <<coll, ivars, rvars, NotChat>>

\* Line 114: IntentClassifier().predict_intent(user_text) returns one of
\* its two labels, or the loading of its model raises.
PredictIntent ==
    /\ chat.pc = "construct"
    /\ rpc = "ready"
    /\ \/ \E label \in IntentLabels :
             chat' = [chat EXCEPT !.pc = "route", !.intent = label]
       \/ RequestFails("classifier")
    /\ UNCHANGED msgs
    /\ UNCHANGED <<coll, ivars, rvars, NotChat>>

\* Route, taking the retrieval path whatever the label.
RouteAlwaysAnswer ==
    /\ chat.pc = "route"
    /\ chat' = [chat EXCEPT !.pc = "call", !.path = "answer_query"]
    /\ UNCHANGED msgs
    /\ UNCHANGED <<coll, ivars, rvars, NotChat>>

\* Lines 115-121: the branch on the label.
Route ==
    /\ chat.pc = "route"
    /\ chat' = [chat EXCEPT !.pc = "call",
                            !.path = IF chat.intent = "Summarize Full Document"
                                     THEN "summarize_full_document"
                                     ELSE "answer_query"]
    /\ UNCHANGED msgs
    /\ UNCHANGED <<coll, ivars, rvars, NotChat>>

\* Lines 118, 121 and 123-126: the call has returned or raised; what it
\* returned is the bot's text.  `taken` keeps, for every call the request
\* has made, the method, its library calls and the exception, if any.
TakeResponse ==
    /\ chat.pc = "call"
    /\ rpc \in {"done", "raised"}
    /\ chat' = [chat EXCEPT
                  !.taken = Append(@, [op |-> rargs.op, calls |-> rcalls,
                                       err |-> rerr]),
                  !.pc = IF rpc = "done" THEN "save" ELSE "failed",
                  !.status = IF rpc = "done" THEN 0 ELSE 500,
                  !.cause = IF rpc = "done" THEN "none" ELSE "call",
                  !.bot_text = IF rpc = "done" THEN <<rout>> ELSE <<>>]
    /\ UNCHANGED msgs
    /\ UNCHANGED <<coll, ivars, rvars, NotChat>>

\* Lines 134-143: the bot's Message is added and committed, and the
\* request is answered.
SaveBot ==
    /\ chat.pc = "save"
    /\ \/ /\ msgs' = Append(msgs, [sender |-> "bot", text |-> chat.bot_text,
                                    request |-> chat.n])
          /\ chat' = [chat EXCEPT !.pc = "responded", !.status = 200]
       \/ /\ UNCHANGED msgs
          /\ RequestFails("save")
    /\ UNCHANGED <<coll, ivars, rvars, NotChat>>

\* The request is over.
RequestOver == chat.pc \in {"responded", "failed"}

\* The store before any run, or after a first run() over one of the chunk
\* files; no message sent yet.
ChatInit ==
    /\ RetrieverInit
    /\ AroundInit
    /\ \/ /\ coll = NoCollection
          /\ IndexerInit
       \/ \E f \in {"empty", "small", "large"} : AfterRun(f, ChunkFile(f).chunks)

\* The messages of one chat, each handled from its first line to its
\* last before the next comes; rag_bot lives as long as its request.
ChatNext ==
    \/ \E text \in UserTexts : SendMessage(text)
    \/ chat.pc = "construct" /\ NewChatbot
    \/ ConstructorRaised
    \/ PredictIntent
    \/ Route
    \/ chat.pc = "call" /\ chat.path = "answer_query"
          /\ AnswerQuery(Words(chat.text))
    \/ chat.pc = "call" /\ chat.path = "summarize_full_document"
          /\ Summarize(DefaultMaxTokens)
    \/ QueryEmbedDense
    \/ QueryEmbedSparse
    \/ QueryEmbedLate
    \/ Search
    \/ ScrollChunks
    \/ Generate
    \/ TakeResponse
    \/ SaveBot
    \/ RequestOver /\ Return
    \/ RequestOver /\ Drop

ChatSpec == ChatInit /\ [][ChatNext]_vars

(* ------------------------------ properties ---------------------------- *)

\* query_points has returned to retrieve() / _retrieve_context().
SearchReturned == rcalls.search = 1 /\ rpc \in {"done", "generate"}

\* The position in the collection of the point with this id.
StoredAt(id) == CHOOSE i \in DOMAIN coll.points : coll.points[i].id = id

\* The late-interaction score of the stored point at position i for the
\* query of the call.
ScoreOf(i) == LateScore(LateQueryEmbed(rargs.query), coll.points[i].vector.late)

\* The positions of the points either prefetch of the call selects.
Candidates ==
    PrefetchUnion(coll.points, DenseQueryEmbed(rargs.query),
                  SparseQueryEmbed(rargs.query), rargs.prefetch_limit)

\* C1: retrieve(query, limit=k) returns at most k payloads, those of the
\* hits in their order, and the hits are in non-increasing order of their
\* late-interaction score; the chat pipeline's fixed limit bounds its hits
\* in the same way.
ResultBound ==
    SearchReturned =>
        /\ Len(rhits) <= rargs.limit
        /\ \A r \in 1 .. (Len(rhits) - 1) :
              ScoreOf(StoredAt(rhits[r].id)) >= ScoreOf(StoredAt(rhits[r + 1].id))
        /\ rargs.op = "retrieve" =>
              /\ Len(rout) <= rargs.limit
              /\ rout = [r \in DOMAIN rhits |->
                           coll.points[StoredAt(rhits[r].id)].payload]

\* A retrieve() that the limit cut short, with a strictly better first hit.
ResultBoundWitness ==
    /\ SearchReturned
    /\ rargs.op = "retrieve"
    /\ rargs.limit >= 2
    /\ Len(rout) = rargs.limit
    /\ Cardinality(Candidates) > rargs.limit
    /\ ScoreOf(StoredAt(rhits[1].id)) > ScoreOf(StoredAt(rhits[Len(rhits)].id))

\* C2: the hits are the best `limit` candidates of the union of the dense
\* and the sparse prefetch by late-interaction score: no point twice, every
\* hit a candidate, as many hits as the limit and the union allow, and no
\* candidate left out that scores higher than a hit.
FusionIsTopOfUnion ==
    SearchReturned =>
        LET hit == {StoredAt(rhits[r].id) : r \in DOMAIN rhits}
        IN /\ Cardinality(hit) = Len(rhits)
           /\ hit \subseteq Candidates
           /\ Len(rhits) = Min(rargs.limit, Cardinality(Candidates))
           /\ \A i \in Candidates \ hit : \A j \in hit : ScoreOf(i) <= ScoreOf(j)

\* A stored point outside both prefetch sets scores higher than every hit,
\* and is not returned.
FusionWitness ==
    /\ SearchReturned
    /\ rhits # <<>>
    /\ \E i \in DOMAIN coll.points \ Candidates :
          /\ \A r \in DOMAIN rhits : ScoreOf(i) > ScoreOf(StoredAt(rhits[r].id))
          /\ \A r \in DOMAIN rhits : rhits[r].id # coll.points[i].id

\* C3: a retrieve() that completes on a collection without candidates
\* returns the empty sequence with no error, and on a collection that
\* exists the search raises nothing but a failure of the store: having no
\* points is never reported as an error.
EmptyIsNotAnError ==
    /\ (SearchReturned /\ Candidates = {}) =>
          /\ rerr = "none"
          /\ rhits = <<>>
          /\ rargs.op = "retrieve" => rout = <<>>
    /\ (rpc = "raised" /\ rcalls.search = 1 /\ rcalls.generate = 0
            /\ coll.exists) =>
          rerr = "StorageFailure"

\* retrieve() has returned the empty sequence from an empty collection.
EmptyWitness ==
    /\ rpc = "done"
    /\ rargs.op = "retrieve"
    /\ coll.exists
    /\ coll.points = <<>>
    /\ rout = <<>>
    /\ rerr = "none"

\* C4: a retrieval that fails because the collection does not exist has
\* loaded no embedding model, computed no query embedding and issued no
\* search.
MissingCollectionFailsFast ==
    rerr = "NotFound" =>
        /\ ~rloaded
        /\ rcalls.dense = 0 /\ rcalls.sparse = 0 /\ rcalls.late = 0
        /\ rcalls.search = 0

\* C5: a failure of a query embedding or of the store ends the call at
\* once with the exception: nothing is returned, no hits are kept, no call
\* is made twice, and no step after the failing one is made.
FailurePropagates ==
    /\ \A c \in DOMAIN rcalls : rcalls[c] <= 1
    /\ rerr \in {"EmbeddingFailure", "StorageFailure"} =>
          /\ rpc = "raised"
          /\ rout = "none"
          /\ rhits = <<>>
          /\ rcalls.generate = 0
          /\ (rerr = "EmbeddingFailure") =>
                /\ rcalls.search = 0
                /\ rcalls.dense = 1
                /\ "dense" \notin DOMAIN rvec => rcalls.sparse = 0
                /\ "sparse" \notin DOMAIN rvec => rcalls.late = 0
                /\ "late" \notin DOMAIN rvec
          /\ (rerr = "StorageFailure" /\ rargs.op \in {"retrieve", "answer_query"}) =>
                /\ rcalls.dense = 1 /\ rcalls.sparse = 1 /\ rcalls.late = 1
                /\ rcalls.search = 1

\* The search of a retrieval over stored points failed: nothing returned.
FailureWitness ==
    /\ rpc = "raised"
    /\ rerr = "StorageFailure"
    /\ rcalls.search = 1
    /\ coll.exists
    /\ coll.points # <<>>

\* The number of chunks the successful upserts of the run carried.
RECURSIVE Inserted(_)
Inserted(log) ==
    IF log = <<>> THEN 0
    ELSE (IF log[1][3] THEN log[1][2] ELSE 0) + Inserted(Tail(log))

\* C6: run() never raises: a step that fails ends run() with False, and
\* run() returns True only when load_chunks, setup_collection, embed_texts
\* and insert_into_qdrant have all completed.
RunNeverRaises ==
    /\ ipc \in {"idle", "load_chunks", "setup_collection", "create_collection",
                "embed_dense", "embed_sparse", "embed_late",
                "insert_into_qdrant", "upsert", "done"}
    /\ ipc = "done" => iret \in {"True", "False"}
    /\ ifail # "none" => (ipc \in {"done", "idle"} /\ iret = "False")
    /\ iret = "False" => ifail # "none"
    /\ iret = "True" =>
          /\ ifail = "none"
          /\ ChunkFile(file).exists
          /\ up.chunks = ChunkFile(file).chunks
          /\ Len(up.texts) = Len(up.chunks)
          /\ coll.exists
          /\ Len(up.dense_vecs) = Len(up.texts)
          /\ Len(up.sparse_vecs) = Len(up.texts)
          /\ Len(up.colbert_vecs) = Len(up.texts)
          /\ ioff >= Len(up.chunks)
          /\ Inserted(ilog) = Len(up.chunks)

\* run() has returned False after embed_texts raised.
RunFalseWitness ==
    /\ ipc = "done"
    /\ iret = "False"
    /\ ifail = "embed_texts"

\* C7: when the upsert of batch k fails, run() returns False, no batch
\* after k is submitted, and every point of the batches before k is in the
\* collection with the text of its chunk.
BatchFailureContained ==
    \A k \in DOMAIN ilog :
        ~ilog[k][3] =>
            /\ k = Len(ilog)
            /\ ipc \in {"done", "idle"}
            /\ iret = "False"
            /\ \A j \in 1 .. (k - 1) :
                  /\ ilog[j][3]
                  /\ \A n \in 1 .. ilog[j][2] :
                        \E i \in DOMAIN coll.points :
                            /\ coll.points[i].id = ilog[j][1] + n - 1
                            /\ coll.points[i].payload.text =
                                  up.chunks[(j - 1) * BatchSize + n].content

\* The third batch failed after two batches were stored.
BatchFailureWitness ==
    /\ Len(ilog) = 3
    /\ ~ilog[3][3]
    /\ iret = "False"
    /\ Len(coll.points) = 2 * BatchSize

\* A point with all three vector spaces populated.
Complete(p) ==
    /\ DOMAIN p.vector.dense # {}
    /\ DOMAIN p.vector.sparse # {}
    /\ DOMAIN p.vector.late # {}

\* C8: every point submitted to upsert, and so every stored point, has a
\* non-empty dense, sparse and late-interaction vector.
PointsComplete ==
    /\ \A i \in DOMAIN coll.points : Complete(coll.points[i])
    /\ (ipc = "insert_into_qdrant" /\ ioff < Len(up.chunks)) =>
          \A p \in Range(BatchPoints(up, ioff, BatchSize, nextId)) : Complete(p)

\* C9: whenever setup_collection has completed, the collection exists, has
\* no points and has the declared schema: a cosine dense space, an IDF
\* sparse space, a cosine late-interaction space compared by max-sim.
SetupIdempotent ==
    ipc = "embed_dense" =>
        /\ coll.exists
        /\ coll.points = <<>>
        /\ coll.schema =
              [dense  |-> [size |-> DenseSize, distance |-> "Cosine"],
               late   |-> [size |-> LateSize, distance |-> "Cosine",
                           comparator |-> "MaxSim"],
               sparse |-> [modifier |-> "Idf"]]

\* setup_collection has completed a second time, over a collection that
\* held the points of the first run.
SetupWitness ==
    /\ ipc = "embed_dense"
    /\ runs = 2
    /\ nextId > 2 * BatchSize
    /\ coll.points = <<>>

\* The first m chunks, each followed by the separator.
RECURSIVE PrefixText(_, _)
PrefixText(chunks, m) ==
    IF m = 0 THEN <<>>
    ELSE PrefixText(chunks, m - 1) \o chunks[m] \o <<SEP>>

\* The tokens of the first m chunks.
RECURSIVE PrefixTokens(_, _)
PrefixTokens(chunks, m) ==
    IF m = 0 THEN 0
    ELSE PrefixTokens(chunks, m - 1) + TokenCount(chunks[m])

\* C10: the document summarize_full_document builds is a prefix of the
\* scanned chunks, each whole, within max_tokens, ending before the first
\* chunk that would exceed the budget.
SummaryIsBudgetPrefix ==
    (rargs.op = "summarize_full_document" /\ rpc = "generate") =>
        /\ rhits = [i \in 1 .. Min(ScrollLimit, Len(coll.points)) |->
                      coll.points[i].payload.text]
        /\ \E m \in 0 .. Len(rhits) :
              /\ rout.document_text = PrefixText(rhits, m)
              /\ rout.total_tokens = PrefixTokens(rhits, m)
              /\ rout.total_tokens <= rargs.max_tokens
              /\ m < Len(rhits) =>
                    rout.total_tokens + TokenCount(rhits[m + 1]) > rargs.max_tokens

\* The document stops before a chunk that does not fit although a later
\* chunk would.
SummaryWitness ==
    /\ rargs.op = "summarize_full_document"
    /\ rpc = "generate"
    /\ \E m \in 1 .. (Len(rhits) - 2) :
          /\ rout.document_text = PrefixText(rhits, m)
          /\ rout.total_tokens + TokenCount(rhits[m + 1]) > rargs.max_tokens
          /\ \E j \in (m + 2) .. Len(rhits) :
                rout.total_tokens + TokenCount(rhits[j]) <= rargs.max_tokens

\* The number of chunks in the document summarize_full_document built.
Included == Count(rout.document_text, SEP)

\* C11: summarize_full_document leaves a stored point out of its document
\* only because of the token budget: the document holds the stored texts
\* in storage order up to the first one that does not fit into max_tokens,
\* however many points the collection holds.
SummaryScansAllPoints ==
    (rargs.op = "summarize_full_document" /\ rpc = "generate") =>
        /\ Included <= Len(coll.points)
        /\ \A i \in 1 .. Included :
              rhits[i] = coll.points[i].payload.text
        /\ Included < Len(coll.points) =>
              rout.total_tokens
                  + TokenCount(coll.points[Included + 1].payload.text)
                      > rargs.max_tokens

\* The candidate pool of the call's query over the stored points for the
\* prefetch limit p.
PoolAt(p) ==
    PrefetchUnion(coll.points, DenseQueryEmbed(rargs.query),
                  SparseQueryEmbed(rargs.query), p)

DenseCandidates ==
    DensePrefetch(coll.points, DenseQueryEmbed(rargs.query), rargs.prefetch_limit)

\* The positions the sparse prefetch of the call selects.
SparseCandidates ==
    SparsePrefetch(coll.points, SparseQueryEmbed(rargs.query), rargs.prefetch_limit)

\* C13: each prefetch of a search contributes at most prefetch_limit
\* candidates, 20 in QdrantRetriever.retrieve and 10 in the chat pipeline,
\* the pool holds at most twice that, and the chat pipeline gets at most 5
\* contexts.
PrefetchCaps ==
    SearchReturned =>
        /\ rargs.op = "retrieve" => rargs.prefetch_limit = 20
        /\ rargs.op = "answer_query" =>
              /\ rargs.prefetch_limit = 10
              /\ Len(rhits) <= 5
        /\ Cardinality(DenseCandidates) <= rargs.prefetch_limit
        /\ Cardinality(SparseCandidates) <= rargs.prefetch_limit
        /\ Cardinality(Candidates) <= 2 * rargs.prefetch_limit

\* The chat pipeline searched a collection of more points than its
\* prefetch limit: the dense prefetch is cut to 10, the pool is larger than
\* one prefetch, and 5 contexts came back.
PrefetchCapsWitness ==
    /\ SearchReturned
    /\ rargs.op = "answer_query"
    /\ Len(coll.points) > 10
    /\ Cardinality(DenseCandidates) = 10
    /\ Cardinality(Candidates) > 10
    /\ Len(rhits) = 5

\* The number of points the upsert calls of the log carried.
RECURSIVE Submitted(_)
Submitted(log) ==
    IF log = <<>> THEN 0 ELSE log[1][2] + Submitted(Tail(log))

\* The number of ids made since the current run started.
MadeInRun ==
    Submitted(ilog) + (IF inflight = <<>> THEN 0 ELSE Len(inflight[1]))

\* C14: the ids of the points the indexing runs build are fresh: no id is
\* given twice, within a run or across runs (whether or not a run indexes
\* the file of an earlier one), so the ids of a run are disjoint from the
\* ids of every earlier run; the stored points carry made ids, each once,
\* and the points of the run's batches carry ids made in this run.
IdsFresh ==
    /\ Cardinality(Range(made)) = Len(made)
    /\ \A i \in DOMAIN coll.points : coll.points[i].id \in Range(made)
    /\ \A i \in DOMAIN coll.points : \A j \in DOMAIN coll.points :
          coll.points[i].id = coll.points[j].id => i = j
    /\ \A k \in DOMAIN ilog : \A e \in 1 .. (Len(made) - MadeInRun) :
          made[e] \notin ilog[k][1] .. (ilog[k][1] + ilog[k][2] - 1)

\* The large file has been indexed a second time: the stored points are
\* those of the second run, with ids made after the ids of the first.
IdsFreshWitness ==
    /\ runs = 2
    /\ iret = "True"
    /\ Len(made) = 2 * NChunks
    /\ Len(coll.points) = NChunks
    /\ \A i \in DOMAIN coll.points : coll.points[i].id = made[NChunks + i]

\* C15: the batches of a run go to the store one after the other: at most
\* one upsert is in flight, the batch in flight is the next batch_size
\* chunks in chunk order, a batch is submitted only after every earlier one
\* has returned without error, no batch has more than batch_size points,
\* and a run that returns True has issued ceil(n / batch_size) upserts.
BatchesSequential ==
    /\ Len(inflight) <= 1
    /\ (inflight # <<>>) <=> (ipc = "upsert")
    /\ ipc \in {"insert_into_qdrant", "upsert"} => ioff = Len(ilog) * BatchSize
    /\ Len(ilog) + Len(inflight) <= Batches(Len(up.chunks))
    /\ \A k \in DOMAIN inflight :
          /\ Len(inflight[k]) = Min(BatchSize, Len(up.chunks) - ioff)
          /\ \A n \in DOMAIN inflight[k] :
                inflight[k][n].payload.text = up.chunks[ioff + n].content
    /\ \A k \in DOMAIN ilog :
          /\ ilog[k][2] >= 1
          /\ ilog[k][2] <= BatchSize
          /\ ilog[k][2] = Min(BatchSize, Len(up.chunks) - (k - 1) * BatchSize)
          /\ k < Len(ilog) => (ilog[k][3] /\ ilog[k][1] < ilog[k + 1][1])
    /\ iret = "True" => Len(ilog) = Batches(Len(up.chunks))

\* run() has returned True over the large file: two full batches and a
\* last, shorter one.
BatchesWitness ==
    /\ iret = "True"
    /\ Len(up.chunks) = NChunks
    /\ Len(ilog) = 3
    /\ ilog[2][2] = BatchSize
    /\ ilog[3][2] = NChunks - 2 * BatchSize
    /\ ilog[3][2] < BatchSize

\* C16: when run() has returned True over a file of n chunks, the
\* collection holds n points, the i-th with the content of chunk i as its
\* text and with an id made in this run: nothing the collection held
\* before the run is left, so a second run over a file leaves n points.
RunReplacesCollection ==
    iret = "True" =>
        /\ Len(coll.points) = Len(ChunkFile(file).chunks)
        /\ \A i \in DOMAIN coll.points :
              /\ coll.points[i].payload.text = ChunkFile(file).chunks[i].content
              /\ \E e \in (Len(made) - MadeInRun + 1) .. Len(made) :
                    coll.points[i].id = made[e]

\* A second run, over the small file, has returned True after a run that
\* stored the points of the large file: only the small file's points are
\* left.
RunReplacesWitness ==
    /\ iret = "True"
    /\ runs = 2
    /\ file = "small"
    /\ Len(made) = NChunks + Len(ChunkFile("small").chunks)
    /\ Len(coll.points) = Len(ChunkFile("small").chunks)

\* C17: within a retrieval the search is issued only when the dense, the
\* sparse and the late-interaction embedding of the query have all been
\* computed, once each; while one of them is pending no search has been
\* made and there are no hits; and every hit of the re-rank is a candidate
\* of the completed dense or sparse prefetch.
EmbeddingsBeforeFusion ==
    /\ (rpc = "search" \/ rcalls.search > 0) =>
          /\ DOMAIN rvec = {"dense", "sparse", "late"}
          /\ rvec.dense = DenseQueryEmbed(rargs.query)
          /\ rvec.sparse = SparseQueryEmbed(rargs.query)
          /\ rvec.late = LateQueryEmbed(rargs.query)
          /\ rcalls.dense = 1 /\ rcalls.sparse = 1 /\ rcalls.late = 1
    /\ rpc \in {"embed_dense", "embed_sparse", "embed_late"} =>
          /\ rcalls.search = 0
          /\ rhits = <<>>
          /\ rout = "none"
    /\ SearchReturned =>
          \A r \in DOMAIN rhits :
              StoredAt(rhits[r].id) \in DenseCandidates \cup SparseCandidates

\* A retrieve() has returned hits, found after its three embeddings.
FusionBarrierWitness ==
    /\ rpc = "done"
    /\ rargs.op = "retrieve"
    /\ rcalls.search = 1
    /\ rhits # <<>>
    /\ DOMAIN rvec = {"dense", "sparse", "late"}

\* C18: indexing and retrieval on one collection are not isolated.  No
\* step of the run waits for the reader and no step of the reader waits
\* for the run: wherever the other one is, the delete, the create and the
\* upsert of the run, the construction of a RAGChatbot and the start of a
\* call can be taken.  And from the delete to the last upsert of the run
\* the collection a reader meets is absent, empty, or holds only the
\* batches upserted so far.
NotIsolated ==
    /\ ipc = "setup_collection" => ENABLED SetupDelete
    /\ ipc = "create_collection" => ENABLED SetupCreate
    /\ ipc = "upsert" => ENABLED UpsertReturn
    /\ rpc = "none" => ENABLED NewChatbot
    /\ (rpc = "ready" /\ bot = "QdrantRetriever") =>
          ENABLED Retrieve(<<1>>, MaxLimit)
    /\ (rpc = "ready" /\ bot = "RAGChatbot") => ENABLED AnswerQuery(<<1>>)
    /\ ipc = "create_collection" => ~coll.exists
    /\ ipc \in {"embed_dense", "embed_sparse", "embed_late"} =>
          coll.exists /\ coll.points = <<>>
    /\ ipc \in {"insert_into_qdrant", "upsert"} =>
          /\ coll.exists
          /\ Len(coll.points) = Min(ioff, Len(up.chunks))
          /\ \A i \in DOMAIN coll.points :
                coll.points[i].payload.text = up.chunks[i].content

\* A retrieve() has returned hits of the run under way while the run is
\* waiting for an upsert, with only part of its points stored.
NotIsolatedWitness ==
    /\ ipc = "upsert"
    /\ Len(coll.points) > 0
    /\ Len(coll.points) < Len(up.chunks)
    /\ rpc = "done"
    /\ rargs.op = "retrieve"
    /\ rhits # <<>>
    /\ \A r \in DOMAIN rhits :
          \E i \in DOMAIN coll.points : coll.points[i].id = rhits[r].id

\* Between two calls the retrieving object holds nothing of a call.
KeepsNothing ==
    rpc \in {"none", "ready"} =>
        /\ rargs = NoArgs
        /\ rvec = NoVec
        /\ rcalls = NoCalls
        /\ rhits = <<>>
        /\ rout = "none"
        /\ rerr = "none"

\* The hits of a search are those of the query, the limits and the stored
\* points alone, whatever calls were made before.
ResultOfInputsOnly ==
    SearchReturned =>
        /\ rhits = QueryPoints(coll.points, DenseQueryEmbed(rargs.query),
                               SparseQueryEmbed(rargs.query),
                               LateQueryEmbed(rargs.query),
                               rargs.prefetch_limit, rargs.limit)
        /\ rargs.op = "retrieve" =>
              rout = [r \in DOMAIN rhits |-> rhits[r].payload]

\* C19: retrieve is stateless per call: every step of a call leaves the
\* collection, the indexer and the object's configuration as they are, the
\* object keeps nothing of a call once it has returned, and the result is
\* determined by the query, the limits and the stored points, so that the
\* same query against the same collection gives the same ordered result.
RetrieveStateless ==
    /\ [](KeepsNothing /\ ResultOfInputsOnly)
    /\ [][(rpc \notin {"none", "ready"} /\ rpc' # "none")
             => (coll' = coll /\ ivars' = ivars /\ bot' = bot
                 /\ rloaded' = rloaded)]_vars

\* A retrieve() on an object that was ready has returned several hits from
\* the stored points.
StatelessWitness ==
    /\ rpc = "done"
    /\ rargs.op = "retrieve"
    /\ rloaded
    /\ Len(rhits) >= 2
    /\ Len(rhits) = Len(rout)
    /\ coll.points # <<>>

\* C20: a stored point is never changed or removed except by the
\* collection deletion of setup_collection: every other step (an upsert of
\* a later batch, a search, a scroll, any step of a call or of a run)
\* leaves every stored point at its place with its id, payload and vectors.
PointsImmutable ==
    [][\/ (ipc = "setup_collection" /\ ipc' = "create_collection")
       \/ /\ Len(coll'.points) >= Len(coll.points)
          /\ \A i \in DOMAIN coll.points : coll'.points[i] = coll.points[i]]_vars

\* The second batch of a run is stored and the points of the first batch
\* are still the first points of the collection, while a retriever that
\* was built before the run is at hand.
PointsImmutableWitness ==
    /\ ipc = "insert_into_qdrant"
    /\ Len(ilog) = 2
    /\ Len(coll.points) = 2 * BatchSize
    /\ \A n \in 1 .. BatchSize :
          /\ coll.points[n].id = ilog[1][1] + n - 1
          /\ coll.points[n].payload.text = up.chunks[n].content
          /\ coll.points[n].vector.dense = up.dense_vecs[n]
    /\ rpc = "ready"

(* --------------------------- the steps of run() ------------------------ *)

\* The places of run() in the order the code goes through them, and the
\* step of run() each belongs to.
StepOrder ==
    <<"load_chunks", "setup_collection", "create_collection", "embed_dense",
      "embed_sparse", "embed_late", "insert_into_qdrant", "upsert">>

StepOf(pc) ==
    CASE pc = "load_chunks" -> "load_chunks"
      [] pc \in {"setup_collection", "create_collection"} -> "setup_collection"
      [] pc \in {"embed_dense", "embed_sparse", "embed_late"} -> "embed_texts"
      [] pc \in {"insert_into_qdrant", "upsert"} -> "insert_into_qdrant"

Place(pc) == CHOOSE n \in DOMAIN StepOrder : StepOrder[n] = pc

\* One step of run() goes to the next place, goes round the insert loop,
\* or ends run(): with False from the step that raised, with True from
\* the end of the insert loop only.
InOrder ==
    \/ ipc' = ipc
    \/ ipc = "idle" /\ ipc' = "load_chunks"
    \/ ipc = "done" /\ ipc' = "idle"
    \/ /\ ipc \in Range(StepOrder)
       /\ \/ ipc' \in Range(StepOrder) /\ Place(ipc') = Place(ipc) + 1
          \/ ipc = "upsert" /\ ipc' = "insert_into_qdrant"
          \/ ipc' = "done" /\ iret' = "False" /\ ifail' = StepOf(ipc)
          \/ /\ ipc = "insert_into_qdrant" /\ ipc' = "done"
             /\ iret' = "True" /\ ifail' = "none"

\* What the steps before the place of run() have left.
StepsBefore ==
    /\ (ipc \in Range(StepOrder) /\ Place(ipc) >= Place("setup_collection"))
          => /\ ChunkFile(file).exists
             /\ up.chunks = ChunkFile(file).chunks
             /\ Len(up.texts) = Len(up.chunks)
    /\ ipc \in {"embed_dense", "embed_sparse", "embed_late"}
          => coll = CreateCollection(Schema)
    /\ ipc \in {"insert_into_qdrant", "upsert"}
          => /\ coll.exists
             /\ Len(up.dense_vecs) = Len(up.texts)
             /\ Len(up.sparse_vecs) = Len(up.texts)
             /\ Len(up.colbert_vecs) = Len(up.texts)

\* C27: the steps of run() execute in the order load_chunks,
\* setup_collection, embed_texts, insert_into_qdrant, each starting only
\* after the one before it succeeded; a run whose load_chunks fails leaves
\* the collection as it was when the run started, and a run whose
\* embed_texts fails leaves the collection existing and empty (the
\* collection of the run before is deleted already).
RunStepsInOrder ==
    /\ [](StepsBefore
          /\ (ifail = "embed_texts" => coll.exists /\ coll.points = <<>>))
    /\ [][/\ InOrder
          /\ ((ipc = "idle" /\ ipc' = "load_chunks") \/ ipc = "load_chunks"
                 \/ ifail = "load_chunks") => coll' = coll]_vars

\* A second run has failed in embed_texts after a first run had stored
\* points: the collection exists and holds none of them.
RunStepsWitness ==
    /\ runs = 2
    /\ iret = "False"
    /\ ifail = "embed_texts"
    /\ made # <<>>
    /\ coll.exists
    /\ coll.points = <<>>

(* ------------------------ one embedder configuration ------------------- *)

\* The spaces a retrieval names: the two prefetches and the re-rank.
UsedSpaces == {"dense", "sparse", "late"}

\* C21: the embedder configuration is the same at index time and at query
\* time: every space a retrieval uses is declared in the schema of the
\* collection it searches, the dense and the late-interaction space with
\* the output width of the model that feeds it, and the retriever and the
\* chatbot feed each space with the model the writer of the collection
\* fed it with.
EmbedderConfigSame ==
    /\ RetrieverModels = UploaderModels
    /\ ChatbotModels = UploaderModels
    /\ RetrieverModels = ScriptModels
    /\ coll.exists =>
          /\ UsedSpaces \subseteq DOMAIN coll.schema
          /\ coll.schema.dense.size = ModelWidth(RetrieverModels.dense)
          /\ coll.schema.late.size = ModelWidth(RetrieverModels.late)

(* --------------------------- intent classifier ------------------------- *)

\* The model's answer holds an intent name, whatever the case of the letters.
NamesAnIntent(text) ==
    \E n \in DOMAIN DocumentIntent : Contains(Lower(text), Lower(DocumentIntent[n]))

\* C22: classify never returns a raw model label: whatever the model
\* answers, the intent returned is a member of DocumentIntent; an answer
\* that holds no intent name gives OTHER; an empty or blank input gives
\* (OTHER, 0.0) without a call of the model; and an exception during the
\* classification gives (OTHER, 0.0).
ClassifyTotal ==
    /\ clf.pc \in {"idle", "call", "backoff", "map", "except", "returned"}
    /\ clf.pc = "returned" =>
          /\ Len(clf.result) = 2
          /\ clf.result[1] \in Range(DocumentIntent)
          /\ StripChars(clf.input, WhiteSpace) = <<>>
                => clf.result = <<OtherIntent, 0>> /\ clf.tries = 0 /\ clf.attempts = <<>>
          /\ clf.exc # "none" => clf.result = <<OtherIntent, 0>>
          /\ (clf.exc = "none" /\ clf.tries > 0 /\ ~NamesAnIntent(clf.response.text))
                => clf.result[1] = OtherIntent

\* The model answered "Q&A", the label of another classifier, and classify
\* returned OTHER.
ClassifyTotalWitness ==
    /\ clf.pc = "returned"
    /\ clf.exc = "none"
    /\ clf.response.text = <<"Q", "&", "A">>
    /\ clf.result = <<OtherIntent, 5>>

\* A try that ended with an exception the decorator tries again after.
TriedAgainAfter(a) ==
    /\ a[1] \in {"ConnectionError", "Timeout", "HTTPError", "JSONDecodeError"}
    /\ ~(a[1] = "HTTPError" /\ a[2] < 500)

HasIndexer(u) ==
    uploads[u].tpc \in {"load_chunks", "store", "run_returned", "commit",
                        "progress100"}

\* C24: for every upload, under any interleaving of the uploads, the
\* collection its background thread indexes into is the collection whose
\* name its own response gave, the name the upload was given.
IndexesOwnCollection ==
    \A u \in DOMAIN uploads :
        /\ uploads[u].pc = "answered" => uploads[u].response_name = u
        /\ HasIndexer(u) => uploads[u].indexer_name = u
        /\ (uploads[u].pc = "answered" /\ HasIndexer(u))
              => uploads[u].indexer_name = uploads[u].response_name

\* C25: for every upload, under any interleaving of the background
\* threads, the chunks its indexer loads and stores are the chunks of its
\* own PDF.
IndexesOwnChunks ==
    \A u \in DOMAIN uploads :
        /\ uploads[u].tpc = "store" => uploads[u].indexer_chunks = {u}
        /\ (uploads[u].success = "True" /\ HasIndexer(u))
              => /\ uploads[u].indexer_chunks = {u}
                 /\ collections[uploads[u].indexer_name].exists

\* The values progress_store[task_id] is given, in the order of
\* background_process.
ProgressSteps == <<0, 25, 50, 75, 100>>

ProgressPlace(p) == CHOOSE i \in DOMAIN ProgressSteps : ProgressSteps[i] = p

\* Chunking raised, or run() returned False.
FailedEarly(u) ==
    uploads[u].tpc = "dead" /\ uploads[u].cause \in {"chunking", "run_false"}

\* C26: the progress of an upload task only moves forward through 0, 25,
\* 50, 75, 100; it is 75 or more only when indexer.run() returned True, it
\* is 100 only when the status of the PDF was committed as 'success', and
\* once chunking raised or run() returned False the progress is at most 50
\* and the status is 'processing', and neither changes again.
ProgressForward ==
    /\ [](\A u \in DOMAIN uploads :
            /\ progress_store[u] \in {ProgressSteps[i] : i \in DOMAIN ProgressSteps}
            /\ progress_store[u] >= 75 => uploads[u].success = "True"
            /\ progress_store[u] = 100 => uploads[u].status = "success"
            /\ uploads[u].status \in {"processing", "success"}
            /\ FailedEarly(u) =>
                  progress_store[u] <= 50 /\ uploads[u].status = "processing")
    /\ [][\A u \in DOMAIN uploads :
            /\ \/ progress_store'[u] = progress_store[u]
               \/ /\ ProgressPlace(progress_store[u]) < Len(ProgressSteps)
                  /\ progress_store'[u] =
                        ProgressSteps[ProgressPlace(progress_store[u]) + 1]
            /\ uploads[u].status = "success" => uploads'[u].status = "success"
            /\ FailedEarly(u) =>
                  /\ uploads'[u] = uploads[u]
                  /\ progress_store'[u] = progress_store[u]]_vars

\* One task ran to the end, another stopped because run() returned False.
ProgressWitness ==
    \E u, v \in DOMAIN uploads :
        /\ uploads[u].tpc = "finished" /\ progress_store[u] = 100
        /\ uploads[u].status = "success"
        /\ uploads[v].tpc = "dead" /\ uploads[v].cause = "run_false"
        /\ progress_store[v] = 50 /\ uploads[v].status = "processing"

\* The user's Message of the request under way is in the chat, where the
\* request put it.
UserStored ==
    /\ Len(msgs) > chat.before
    /\ msgs[chat.before + 1].sender = "user"
    /\ msgs[chat.before + 1].request = chat.n
    /\ msgs[chat.before + 1].text = chat.text

\* The chat has a bot Message for request n.
BotStored(n) ==
    \E i \in DOMAIN msgs : msgs[i].sender = "bot" /\ msgs[i].request = n

\* Retrieval or generation has started for the request under way.
AnswerStarted ==
    bot # "none" \/ rpc # "none" \/ rcalls # NoCalls \/ chat.taken # <<>>

\* C28: in send_message a blank text is answered with 400 and stores
\* nothing; for any other text the user's message is committed before
\* retrieval or generation starts; a bot message is stored only after the
\* call returned without raising, so a request whose retrieval failed (a
\* missing collection, for one) leaves the user's message and no bot
\* message; every bot message in the chat comes after the user message of
\* the same request.
MessagesInOrder ==
    /\ [](/\ chat.n >= 1 /\ StripChars(chat.text, {SP}) = <<>> =>
                /\ chat.status = 400
                /\ Len(msgs) = chat.before
                /\ ~AnswerStarted
          /\ chat.status = 400 => StripChars(chat.text, {SP}) = <<>>
          /\ AnswerStarted => UserStored
          /\ BotStored(chat.n) =>
                /\ chat.status = 200
                /\ Len(chat.taken) = 1
                /\ chat.taken[1].err = "none"
                /\ Len(msgs) = chat.before + 2
          /\ chat.pc = "failed" /\ chat.cause \in {"constructor", "classifier", "call"} =>
                /\ UserStored
                /\ Len(msgs) = chat.before + 1
                /\ ~BotStored(chat.n)
          /\ \A i \in DOMAIN msgs :
                msgs[i].sender = "bot" =>
                   \E j \in 1 .. (i - 1) :
                      msgs[j].sender = "user" /\ msgs[j].request = msgs[i].request)
    /\ [][/\ Len(msgs') >= Len(msgs)
          /\ SubSeq(msgs', 1, Len(msgs)) = msgs
          /\ Len(msgs') <= Len(msgs) + 1
          /\ (Len(msgs') > Len(msgs) /\ msgs'[Len(msgs')].sender = "bot") =>
                chat.pc = "save" /\ rpc = "done" /\ rerr = "none"]_vars

\* The collection does not exist: the request has failed in the
\* constructor, its user message is the last row of the chat.
MessagesWitness ==
    /\ chat.pc = "failed"
    /\ chat.cause = "constructor"
    /\ rerr = "NotFound"
    /\ chat.n = 2
    /\ Len(msgs) = 2
    /\ msgs[1].sender = "user" /\ msgs[2].sender = "user"

\* The method lines 115-121 call for a label.
PathOf(intent) ==
    IF intent = "Summarize Full Document" THEN "summarize_full_document"
    ELSE "answer_query"

\* C29: send_message calls one answer path per request, never both:
\* summarize_full_document when, and only when, the label of the classifier
\* is 'Summarize Full Document', answer_query otherwise; a request answered
\* with 200 has made exactly one such call.  The summarization path makes
\* no embedding call and no similarity search: a scroll, then one
\* generation; the answer path embeds the query three times and searches.
RoutesByIntent ==
    /\ [](/\ Len(chat.taken) <= 1
          /\ \A i \in DOMAIN chat.taken :
                /\ chat.taken[i].op = PathOf(chat.intent)
                /\ chat.taken[i].op = "summarize_full_document"
                      <=> chat.intent = "Summarize Full Document"
                /\ chat.taken[i].op = "summarize_full_document" =>
                      /\ chat.taken[i].calls.dense = 0
                      /\ chat.taken[i].calls.sparse = 0
                      /\ chat.taken[i].calls.late = 0
                      /\ chat.taken[i].calls.search = 0
                /\ chat.taken[i].op = "summarize_full_document"
                      /\ chat.taken[i].err = "none" =>
                         chat.taken[i].calls = [NoCalls EXCEPT !.generate = 1]
                /\ chat.taken[i].op = "answer_query" /\ chat.taken[i].err = "none" =>
                      chat.taken[i].calls =
                         [dense |-> 1, sparse |-> 1, late |-> 1, search |-> 1,
                          generate |-> 1]
          /\ chat.status = 200 => Len(chat.taken) = 1
          /\ rargs.op # "none" =>
                /\ rargs.op = PathOf(chat.intent)
                /\ chat.intent \in IntentLabels
          /\ rargs.op = "summarize_full_document" =>
                /\ rvec = NoVec
                /\ rcalls.dense = 0 /\ rcalls.sparse = 0
                /\ rcalls.late = 0 /\ rcalls.search = 0
          /\ rpc = "scroll" => rargs.op = "summarize_full_document")
    /\ [][(rargs.op = "none" /\ rargs'.op # "none") =>
             /\ chat.pc = "call"
             /\ chat.taken = <<>>
             /\ rargs'.op = PathOf(chat.intent)]_vars

\* A second request, labelled 'Summarize Full Document', answered with 200
\* after one summarization that scrolled the large collection.
RoutesWitness ==
    /\ chat.n = 2
    /\ chat.status = 200
    /\ chat.intent = "Summarize Full Document"
    /\ Len(chat.taken) = 1
    /\ chat.taken[1].op = "summarize_full_document"
    /\ chat.taken[1].calls = [NoCalls EXCEPT !.generate = 1]
    /\ Len(coll.points) = NChunks
    /\ Len(msgs) = 4

============================================================================
